---- MODULE Spec2Model ----
(***************************************************************************)
(* OpenWeather WASM FDW (src/src/lib.rs): the scan engine as a state       *)
(* machine.  One OpenWeatherFdw instance, driven by the host through the   *)
(* Guest interface: init, begin_scan, iter_scan, re_scan, end_scan and the *)
(* (rejected) write path.                                                  *)
(*                                                                         *)
(* Representation:                                                         *)
(*   Option<T>      None is <<>>, Some(x) is <<x>>                         *)
(*   Result<T, E>   [ok |-> TRUE, v |-> x]  or  [ok |-> FALSE, msg |-> m]  *)
(*   f64            fixed point, F64Scale units per 1.0 (52.52 is 525200)  *)
(*   error message  a tuple: the message text, then the formatted values   *)
(*   JSON value     [t |-> "int"|"float"|"str"|"arr"|"obj"|"null", v |-> ] *)
(***************************************************************************)
EXTENDS Integers, Sequences, FiniteSets, TLC

VARIABLES
    inst,        \* the OpenWeatherFdw instance behind INSTANCE
    lastOp,      \* the Guest function the host called last
    lastCtx,     \* the inputs of that call: table options, quals, columns, reply
    lastResult,  \* what that call returned (and the cells pushed to its row)
    issued,      \* the HTTP requests that call handed to http::get
    emitted,     \* rows emitted from the rowset now loaded
    overflow_checks  \* the build traps on integer overflow (else it wraps)

vars == <<inst, lastOp, lastCtx, lastResult, issued, emitted, overflow_checks>>

----------------------------------------------------------------------------
(* Bounds *)

\* longest array in a modelled API response
MaxRows == 2

----------------------------------------------------------------------------
(* Option, Result, numbers *)

None == <<>>
Some(x) == <<x>>
IsSome(o) == Len(o) = 1
IsNone(o) == Len(o) = 0
Unwrap(o) == o[1]
UnwrapOr(o, d) == IF IsSome(o) THEN Unwrap(o) ELSE d

Ok(x) == [ok |-> TRUE, v |-> x]
Err(m) == [ok |-> FALSE, msg |-> m]

\* f64 values are carried as integers counting 1/F64Scale
F64Scale == 10000
\* `n as f64` for an integer n
IntAsF64(n) == n * F64Scale

\* microseconds per second, as written in the source
MICROS == 1000000

\* Rust's integer division truncates toward zero
\* A division that rounds toward minus infinity.
TruncDiv_floor(a, b) == a \div b
TruncDiv(a, b) == IF a >= 0 THEN a \div b ELSE -((-a) \div b)

Min(S) == CHOOSE m \in S : \A o \in S : m <= o

----------------------------------------------------------------------------
(* serde_json::Value accessors *)

JInt(n) == [t |-> "int", v |-> n]
JFloat(x) == [t |-> "float", v |-> x]
JStr(s) == [t |-> "str", v |-> s]
JArr(a) == [t |-> "arr", v |-> a]
JObj(f) == [t |-> "obj", v |-> f]

json_get(val, key) ==
    IF val.t = "obj" /\ key \in DOMAIN val.v THEN Some(val.v[key]) ELSE None
as_i64(val) == IF val.t = "int" THEN Some(val.v) ELSE None
as_f64(val) ==
    IF val.t = "int" THEN Some(IntAsF64(val.v))
    ELSE IF val.t = "float" THEN Some(val.v) ELSE None
as_str(val) == IF val.t = "str" THEN Some(val.v) ELSE None
as_array(val) == IF val.t = "arr" THEN Some(val.v) ELSE None
as_object(val) == IF val.t = "obj" THEN Some(val) ELSE None

\* the chains  x.get(key).and_then(|v| v.as_...())
GetI64(val, key) ==
    LET o == json_get(val, key) IN IF IsSome(o) THEN as_i64(Unwrap(o)) ELSE None
GetF64(val, key) ==
    LET o == json_get(val, key) IN IF IsSome(o) THEN as_f64(Unwrap(o)) ELSE None
GetStr(val, key) ==
    LET o == json_get(val, key) IN IF IsSome(o) THEN as_str(Unwrap(o)) ELSE None
GetArray(val, key) ==
    LET o == json_get(val, key) IN IF IsSome(o) THEN as_array(Unwrap(o)) ELSE None
GetObject(val, key) ==
    LET o == json_get(val, key) IN IF IsSome(o) THEN as_object(Unwrap(o)) ELSE None

\* the chains  opt.and_then(|o| o.get(key)).and_then(|v| v.as_...())
\* The chain ended by unwrap_or(0.0): an absent quantity reads as zero.
GetF64In_or_zero(opt, key) ==
    IF IsSome(opt) THEN Some(UnwrapOr(GetF64(Unwrap(opt), key), 0)) ELSE Some(0)
GetF64In(opt, key) == IF IsSome(opt) THEN GetF64(Unwrap(opt), key) ELSE None
GetObjectIn(opt, key) == IF IsSome(opt) THEN GetObject(Unwrap(opt), key) ELSE None

----------------------------------------------------------------------------
(* EndpointType *)

EndpointTypes ==
    {"CurrentWeather", "MinutelyForecast", "HourlyForecast", "DailyForecast",
     "WeatherAlerts", "HistoricalWeather", "DailySummary", "WeatherOverview"}

SupportedNames ==
    <<"current_weather", "minutely_forecast", "hourly_forecast", "daily_forecast",
      "weather_alerts", "historical_weather", "daily_summary", "weather_overview">>

\* A resolution that also takes the capitalised spelling of current_weather.
from_object_name_lenient(name) ==
    CASE name \in {"current_weather", "Current_Weather", "CURRENT_WEATHER"} ->
             Ok("CurrentWeather")
      [] name = "minutely_forecast" -> Ok("MinutelyForecast")
      [] name = "hourly_forecast" -> Ok("HourlyForecast")
      [] name = "daily_forecast" -> Ok("DailyForecast")
      [] name = "weather_alerts" -> Ok("WeatherAlerts")
      [] name = "historical_weather" -> Ok("HistoricalWeather")
      [] name = "daily_summary" -> Ok("DailySummary")
      [] name = "weather_overview" -> Ok("WeatherOverview")
      [] OTHER -> Err(<<"unsupported endpoint object", name, "Supported:">>
                      \o SupportedNames)

from_object_name(name) ==
    CASE name = "current_weather" -> Ok("CurrentWeather")
      [] name = "minutely_forecast" -> Ok("MinutelyForecast")
      [] name = "hourly_forecast" -> Ok("HourlyForecast")
      [] name = "daily_forecast" -> Ok("DailyForecast")
      [] name = "weather_alerts" -> Ok("WeatherAlerts")
      [] name = "historical_weather" -> Ok("HistoricalWeather")
      [] name = "daily_summary" -> Ok("DailySummary")
      [] name = "weather_overview" -> Ok("WeatherOverview")
      [] OTHER -> Err(<<"unsupported endpoint object", name, "Supported:">>
                      \o SupportedNames)

api_path(et) ==
    CASE et \in {"CurrentWeather", "MinutelyForecast", "HourlyForecast",
                 "DailyForecast", "WeatherAlerts"} -> "/onecall"
      [] et = "HistoricalWeather" -> "/onecall/timemachine"
      [] et = "DailySummary" -> "/onecall/day_summary"
      [] et = "WeatherOverview" -> "/onecall/overview"

----------------------------------------------------------------------------
(* EndpointData *)

DataNone == [variant |-> "None"]

row_count(data) ==
    CASE data.variant = "None" -> 0
      [] data.variant = "CurrentWeather" -> 1
      [] data.variant = "MinutelyForecast" -> Len(data.forecast_time)
      [] data.variant = "HourlyForecast" -> Len(data.forecast_time)
      [] data.variant = "DailyForecast" -> Len(data.forecast_date)
      [] data.variant = "WeatherAlerts" -> Len(data.alerts)
      [] data.variant = "HistoricalWeather" -> 1
      [] data.variant = "DailySummary" -> 1
      [] data.variant = "WeatherOverview" -> 1

----------------------------------------------------------------------------
(* OpenWeatherFdw: the instance, and parameter extraction *)

\* Self::default()
DefaultInstance ==
    [base_url |-> "", api_key |-> "", headers |-> <<>>,
     endpoint_type |-> None, data |-> DataNone,
     latitude |-> 0, longitude |-> 0, units |-> "", lang |-> "",
     dt |-> None, date |-> None, timezone_offset |-> None,
     current_row |-> 0]

\* Cell / Value variants: the tag and the payload (numbers in v, text in s,
\* booleans in b)
Numeric(x) == [t |-> "Numeric", v |-> x]
String(x) == [t |-> "String", s |-> x]
Timestamptz(x) == [t |-> "Timestamptz", v |-> x]
Bool(x) == [t |-> "Bool", b |-> x]
Cell(t, x) ==
    IF t = "String" THEN String(x)
    ELSE IF t = "Bool" THEN Bool(x)
    ELSE [t |-> t, v |-> x]

\* the first qual on `field` with operator "=", if any
\* A lookup that takes the first predicate on the field, whatever its operator.
FirstEqQual_any_operator(quals, field) ==
    LET hits == {i \in 1..Len(quals) : quals[i].field = field}
    IN  IF hits = {} THEN None ELSE Some(quals[Min(hits)])

FirstEqQual(quals, field) ==
    LET hits == {i \in 1..Len(quals) :
                    quals[i].field = field /\ quals[i].operator = "="}
    IN  IF hits = {} THEN None ELSE Some(quals[Min(hits)])

extract_qual_numeric(quals, field) ==
    LET q == FirstEqQual(quals, field)
    IN  IF IsNone(q) THEN None
        ELSE LET val == Unwrap(q).value
             IN  CASE val.t = "F64" -> Some(val.v)
                   [] val.t = "I64" -> Some(IntAsF64(val.v))
                   [] val.t = "I32" -> Some(IntAsF64(val.v))
                   [] val.t = "Numeric" -> Some(val.v)
                   [] OTHER -> None

extract_qual_string(quals, field) ==
    LET q == FirstEqQual(quals, field)
    IN  IF IsNone(q) THEN None
        ELSE LET val == Unwrap(q).value
             IN  IF val.t = "String" THEN Some(val.s) ELSE None

extract_qual_timestamptz(quals, field) ==
    LET q == FirstEqQual(quals, field)
    IN  IF IsNone(q) THEN None
        ELSE LET val == Unwrap(q).value
             IN  IF val.t = "Timestamptz" THEN Some(val.v) ELSE None

\* a range check that leaves the end points out
RangeContains_exclusive(lo, hi, x) == lo < x /\ x < hi

\* (lo..=hi).contains(&x)
RangeContains(lo, hi, x) == lo <= x /\ x <= hi

\* location extraction that falls back to 0.0 where a coordinate is missing
extract_and_validate_location_defaults(quals) ==
    LET latitude == UnwrapOr(extract_qual_numeric(quals, "latitude"), 0)
        longitude == UnwrapOr(extract_qual_numeric(quals, "longitude"), 0)
    IN  IF ~RangeContains(IntAsF64(-90), IntAsF64(90), latitude)
        THEN Err(<<"latitude must be between -90 and 90, got", latitude>>)
        ELSE IF ~RangeContains(IntAsF64(-180), IntAsF64(180), longitude)
        THEN Err(<<"longitude must be between -180 and 180, got", longitude>>)
        ELSE Ok([latitude |-> latitude, longitude |-> longitude])

extract_and_validate_location(quals) ==
    LET latitude == extract_qual_numeric(quals, "latitude")
        longitude == extract_qual_numeric(quals, "longitude")
    IN  IF IsNone(latitude)
        THEN Err(<<"WHERE clause must include 'latitude' between -90 and 90">>)
        ELSE IF IsNone(longitude)
        THEN Err(<<"WHERE clause must include 'longitude' between -180 and 180">>)
        ELSE IF ~RangeContains(IntAsF64(-90), IntAsF64(90), Unwrap(latitude))
        THEN Err(<<"latitude must be between -90 and 90, got", Unwrap(latitude)>>)
        ELSE IF ~RangeContains(IntAsF64(-180), IntAsF64(180), Unwrap(longitude))
        THEN Err(<<"longitude must be between -180 and 180, got", Unwrap(longitude)>>)
        ELSE Ok([latitude |-> Unwrap(latitude), longitude |-> Unwrap(longitude)])

----------------------------------------------------------------------------
(* create_request *)

QP(k, x) == [k |-> k, v |-> x]

\* A request builder that appends the stored tz for every endpoint.
create_request_tz_everywhere(self) ==
    IF IsNone(self.endpoint_type)
    THEN Err(<<"endpoint type not set - call begin_scan first">>)
    ELSE
    LET endpoint_type == Unwrap(self.endpoint_type)
        tz == IF IsSome(self.timezone_offset)
              THEN <<QP("tz", Unwrap(self.timezone_offset))>>
              ELSE <<>>
        tail == <<QP("appid", self.api_key), QP("units", self.units),
                  QP("lang", self.lang)>>
        loc == <<QP("lat", self.latitude), QP("lon", self.longitude)>>
        Request(query) ==
            Ok([method |-> "GET", base |-> self.base_url,
                path |-> api_path(endpoint_type),
                query |-> query \o tz, headers |-> self.headers, body |-> ""])
    IN  CASE endpoint_type = "HistoricalWeather" ->
               IF IsNone(self.dt)
               THEN Err(<<"observation_time parameter required for historical_weather">>)
               ELSE Request(loc \o <<QP("dt", Unwrap(self.dt))>> \o tail)
          [] endpoint_type = "DailySummary" ->
               IF IsNone(self.date)
               THEN Err(<<"summary_date parameter required for daily_summary (YYYY-MM-DD format)">>)
               ELSE Request(loc \o <<QP("date", Unwrap(self.date))>> \o tail)
          [] endpoint_type = "WeatherOverview" ->
               Request(loc \o tail
                       \o (IF IsSome(self.date)
                           THEN <<QP("date", Unwrap(self.date))>>
                           ELSE <<>>))
          [] OTHER -> Request(loc \o tail)

\* A request builder that sends the stored dt with every request.
create_request_stored_dt(self) ==
    IF IsNone(self.endpoint_type)
    THEN Err(<<"endpoint type not set - call begin_scan first">>)
    ELSE
    LET endpoint_type == Unwrap(self.endpoint_type)
        dt == IF IsSome(self.dt) THEN <<QP("dt", Unwrap(self.dt))>> ELSE <<>>
        tail == <<QP("appid", self.api_key), QP("units", self.units),
                  QP("lang", self.lang)>>
        loc == <<QP("lat", self.latitude), QP("lon", self.longitude)>>
        Request(query) ==
            Ok([method |-> "GET", base |-> self.base_url,
                path |-> api_path(endpoint_type),
                query |-> query, headers |-> self.headers, body |-> ""])
    IN  CASE endpoint_type = "HistoricalWeather" ->
               IF IsNone(self.dt)
               THEN Err(<<"observation_time parameter required for historical_weather">>)
               ELSE Request(loc \o dt \o tail)
          [] endpoint_type = "DailySummary" ->
               IF IsNone(self.date)
               THEN Err(<<"summary_date parameter required for daily_summary (YYYY-MM-DD format)">>)
               ELSE Request(loc \o <<QP("date", Unwrap(self.date))>> \o tail
                            \o (IF IsSome(self.timezone_offset)
                                THEN <<QP("tz", Unwrap(self.timezone_offset))>>
                                ELSE <<>>))
          [] endpoint_type = "WeatherOverview" ->
               Request(loc \o tail
                       \o (IF IsSome(self.date)
                           THEN <<QP("date", Unwrap(self.date))>>
                           ELSE <<>>))
          [] OTHER -> Request(loc \o dt \o tail)

create_request(self) ==
    IF IsNone(self.endpoint_type)
    THEN Err(<<"endpoint type not set - call begin_scan first">>)
    ELSE
    LET endpoint_type == Unwrap(self.endpoint_type)
        path == api_path(endpoint_type)
        tail == <<QP("appid", self.api_key), QP("units", self.units),
                  QP("lang", self.lang)>>
        loc == <<QP("lat", self.latitude), QP("lon", self.longitude)>>
        Request(query) ==
            Ok([method |-> "GET", base |-> self.base_url, path |-> path,
                query |-> query, headers |-> self.headers, body |-> ""])
    IN  CASE endpoint_type = "HistoricalWeather" ->
               IF IsNone(self.dt)
               THEN Err(<<"observation_time parameter required for historical_weather">>)
               ELSE Request(loc \o <<QP("dt", Unwrap(self.dt))>> \o tail)
          [] endpoint_type = "DailySummary" ->
               IF IsNone(self.date)
               THEN Err(<<"summary_date parameter required for daily_summary (YYYY-MM-DD format)">>)
               ELSE Request(loc \o <<QP("date", Unwrap(self.date))>> \o tail
                            \o (IF IsSome(self.timezone_offset)
                                THEN <<QP("tz", Unwrap(self.timezone_offset))>>
                                ELSE <<>>))
          [] endpoint_type = "WeatherOverview" ->
               Request(loc \o tail
                       \o (IF IsSome(self.date)
                           THEN <<QP("date", Unwrap(self.date))>>
                           ELSE <<>>))
          [] OTHER -> Request(loc \o tail)

----------------------------------------------------------------------------
(* Response decoders.  Each returns Ok(self with data replaced) or Err(msg) *)
(* with self untouched: every decoder assigns self.data as its last step.  *)

\* the message of the first required field that is None, in source order
FirstMissing(reqs) ==
    LET bad == {i \in 1..Len(reqs) : IsNone(reqs[i][1])}
    IN  IF bad = {} THEN None ELSE Some(reqs[Min(bad)][2])

\* weather[0] with the defaults for its sub-fields
\* A decoder that reads the last entry of the weather array.
weather_first_last(obj, missing_msg) ==
    LET weather_arr == GetArray(obj, "weather")
    IN  IF IsNone(weather_arr) THEN Err(<<missing_msg>>)
        ELSE IF Len(Unwrap(weather_arr)) = 0 THEN Err(<<"weather array is empty">>)
        ELSE LET weather == Unwrap(weather_arr)[Len(Unwrap(weather_arr))]
             IN  Ok([main |-> UnwrapOr(GetStr(weather, "main"), "Unknown"),
                     description |-> UnwrapOr(GetStr(weather, "description"), "unknown"),
                     icon |-> UnwrapOr(GetStr(weather, "icon"), "01d")])

weather_first(obj, missing_msg) ==
    LET weather_arr == GetArray(obj, "weather")
    IN  IF IsNone(weather_arr) THEN Err(<<missing_msg>>)
        ELSE IF Len(Unwrap(weather_arr)) = 0 THEN Err(<<"weather array is empty">>)
        ELSE LET weather == Unwrap(weather_arr)[1]
             IN  Ok([main |-> UnwrapOr(GetStr(weather, "main"), "Unknown"),
                     description |-> UnwrapOr(GetStr(weather, "description"), "unknown"),
                     icon |-> UnwrapOr(GetStr(weather, "icon"), "01d")])

\* the per-element results of an array decode: the first failing element's error
\* aborts the decode
FirstErr(items) ==
    LET bad == {i \in 1..Len(items) : ~items[i].ok}
    IN  IF bad = {} THEN None ELSE Some(items[Min(bad)].msg)

\* A decoder that pushes the optional gust only when the element carries one.
Column_only_present(items, field) ==
    LET col == [i \in 1..Len(items) |-> items[i].v[field]]
    IN  IF field = "wind_gust_speed_m_s" THEN SelectSeq(col, IsSome) ELSE col

Column(items, field) == [i \in 1..Len(items) |-> items[i].v[field]]

parse_current_weather(self, resp_json) ==
    LET current == json_get(resp_json, "current")
    IN  IF IsNone(current)
        THEN Err(<<"missing 'current' object in /onecall response">>)
        ELSE
        LET c == Unwrap(current)
            dt == GetI64(c, "dt")
            temp == GetF64(c, "temp")
            feels_like == GetF64(c, "feels_like")
            pressure == GetI64(c, "pressure")
            humidity == GetI64(c, "humidity")
            dew_point == GetF64(c, "dew_point")
            uvi == GetF64(c, "uvi")
            clouds == GetI64(c, "clouds")
            visibility == GetI64(c, "visibility")
            wind_speed == GetF64(c, "wind_speed")
            wind_deg == GetI64(c, "wind_deg")
            wind_gust == GetF64(c, "wind_gust")
            miss == FirstMissing(<<
                <<dt, "missing 'dt' in current">>,
                <<temp, "missing 'temp' in current">>,
                <<feels_like, "missing 'feels_like' in current">>,
                <<pressure, "missing 'pressure' in current">>,
                <<humidity, "missing 'humidity' in current">>,
                <<dew_point, "missing 'dew_point' in current">>,
                <<uvi, "missing 'uvi' in current">>,
                <<clouds, "missing 'clouds' in current">>,
                <<visibility, "missing 'visibility' in current">>,
                <<wind_speed, "missing 'wind_speed' in current">>,
                <<wind_deg, "missing 'wind_deg' in current">> >>)
            w == weather_first(c, "missing 'weather' array in current")
        IN  IF IsSome(miss) THEN Err(<<Unwrap(miss)>>)
            ELSE IF ~w.ok THEN w
            ELSE Ok([self EXCEPT !.data =
                [variant |-> "CurrentWeather",
                 latitude |-> self.latitude,
                 longitude |-> self.longitude,
                 timezone_name |-> UnwrapOr(GetStr(resp_json, "timezone"), "UTC"),
                 observation_time |-> Unwrap(dt),
                 temperature_temp |-> Unwrap(temp),
                 apparent_temperature_temp |-> Unwrap(feels_like),
                 pressure_hpa |-> Unwrap(pressure),
                 humidity_pct |-> Unwrap(humidity),
                 dew_point_temp |-> Unwrap(dew_point),
                 uv_index |-> Unwrap(uvi),
                 cloud_cover_pct |-> Unwrap(clouds),
                 visibility_m |-> Unwrap(visibility),
                 wind_speed_m_s |-> Unwrap(wind_speed),
                 wind_direction_deg |-> Unwrap(wind_deg),
                 wind_gust_speed_m_s |-> wind_gust,
                 weather_condition |-> w.v.main,
                 weather_description |-> w.v.description,
                 weather_icon_code |-> w.v.icon]])

\* the elements of `minutely` that carry an integer dt; the others are passed over
minutely_kept(arr) == SelectSeq(arr, LAMBDA item : IsSome(GetI64(item, "dt")))

parse_minutely_forecast(self, resp_json) ==
    LET minutely_arr == GetArray(resp_json, "minutely")
    IN  IF IsNone(minutely_arr)
        THEN Err(<<"missing 'minutely' array in /onecall response">>)
        ELSE
        LET kept == minutely_kept(Unwrap(minutely_arr))
        IN  Ok([self EXCEPT !.data =
                [variant |-> "MinutelyForecast",
                 latitude |-> self.latitude,
                 longitude |-> self.longitude,
                 forecast_time |->
                     [i \in 1..Len(kept) |-> Unwrap(GetI64(kept[i], "dt"))],
                 precipitation_mm |->
                     [i \in 1..Len(kept) |->
                         UnwrapOr(GetF64(kept[i], "precipitation"), 0)]]])

\* one pass of the loop body of parse_hourly_forecast
hourly_item(item) ==
    LET dt == GetI64(item, "dt")
        temp == GetF64(item, "temp")
        feels_like == GetF64(item, "feels_like")
        pressure == GetI64(item, "pressure")
        humidity == GetI64(item, "humidity")
        dew_point == GetF64(item, "dew_point")
        uvi == GetF64(item, "uvi")
        clouds == GetI64(item, "clouds")
        visibility == GetI64(item, "visibility")
        wind_speed == GetF64(item, "wind_speed")
        wind_deg == GetI64(item, "wind_deg")
        pop == GetF64(item, "pop")
        miss == FirstMissing(<<
            <<dt, "missing dt">>, <<temp, "missing temp">>,
            <<feels_like, "missing feels_like">>, <<pressure, "missing pressure">>,
            <<humidity, "missing humidity">>, <<dew_point, "missing dew_point">>,
            <<uvi, "missing uvi">>, <<clouds, "missing clouds">>,
            <<visibility, "missing visibility">>, <<wind_speed, "missing wind_speed">>,
            <<wind_deg, "missing wind_deg">>, <<pop, "missing pop">> >>)
        w == weather_first(item, "missing weather array")
    IN  IF IsSome(miss) THEN Err(<<Unwrap(miss)>>)
        ELSE IF ~w.ok THEN w
        ELSE Ok([forecast_time |-> Unwrap(dt),
                 temperature_temp |-> Unwrap(temp),
                 apparent_temperature_temp |-> Unwrap(feels_like),
                 pressure_hpa |-> Unwrap(pressure),
                 humidity_pct |-> Unwrap(humidity),
                 dew_point_temp |-> Unwrap(dew_point),
                 uv_index |-> Unwrap(uvi),
                 cloud_cover_pct |-> Unwrap(clouds),
                 visibility_m |-> Unwrap(visibility),
                 wind_speed_m_s |-> Unwrap(wind_speed),
                 wind_direction_deg |-> Unwrap(wind_deg),
                 wind_gust_speed_m_s |-> GetF64(item, "wind_gust"),
                 precipitation_probability |-> Unwrap(pop),
                 rain_volume_1h_mm |->
                     GetF64In(GetObject(item, "rain"), "1h"),
                 snow_volume_1h_mm |->
                     GetF64In(GetObject(item, "snow"), "1h"),
                 weather_condition |-> w.v.main,
                 weather_description |-> w.v.description,
                 weather_icon_code |-> w.v.icon])

HourlyFields ==
    {"forecast_time", "temperature_temp", "apparent_temperature_temp",
     "pressure_hpa", "humidity_pct", "dew_point_temp", "uv_index",
     "cloud_cover_pct", "visibility_m", "wind_speed_m_s", "wind_direction_deg",
     "wind_gust_speed_m_s", "precipitation_probability", "rain_volume_1h_mm",
     "snow_volume_1h_mm", "weather_condition", "weather_description",
     "weather_icon_code"}

parse_hourly_forecast(self, resp_json) ==
    LET hourly_arr == GetArray(resp_json, "hourly")
    IN  IF IsNone(hourly_arr) THEN Err(<<"missing 'hourly' array">>)
        ELSE
        LET items == [i \in 1..Len(Unwrap(hourly_arr)) |->
                         hourly_item(Unwrap(hourly_arr)[i])]
            failed == FirstErr(items)
        IN  IF IsSome(failed) THEN Err(Unwrap(failed))
            ELSE Ok([self EXCEPT !.data =
                     [f \in HourlyFields |-> Column(items, f)]
                     @@ [variant |-> "HourlyForecast",
                         latitude |-> self.latitude,
                         longitude |-> self.longitude]])

\* one pass of the loop body of parse_daily_forecast
daily_item(item) ==
    LET dt == GetI64(item, "dt")
        sunrise == GetI64(item, "sunrise")
        sunset == GetI64(item, "sunset")
        moonrise == GetI64(item, "moonrise")
        moonset == GetI64(item, "moonset")
        moon_phase == GetF64(item, "moon_phase")
        temp_obj == GetObject(item, "temp")
        T(k) == GetF64In(temp_obj, k)
        feels_like_obj == GetObject(item, "feels_like")
        FL(k) == GetF64In(feels_like_obj, k)
        pressure == GetI64(item, "pressure")
        humidity == GetI64(item, "humidity")
        dew_point == GetF64(item, "dew_point")
        wind_speed == GetF64(item, "wind_speed")
        wind_deg == GetI64(item, "wind_deg")
        clouds == GetI64(item, "clouds")
        pop == GetF64(item, "pop")
        uvi == GetF64(item, "uvi")
        miss == FirstMissing(<<
            <<dt, "missing dt">>, <<sunrise, "missing sunrise">>,
            <<sunset, "missing sunset">>, <<moonrise, "missing moonrise">>,
            <<moonset, "missing moonset">>, <<moon_phase, "missing moon_phase">>,
            <<temp_obj, "missing temp object">>,
            <<T("day"), "missing temp.day">>, <<T("min"), "missing temp.min">>,
            <<T("max"), "missing temp.max">>, <<T("night"), "missing temp.night">>,
            <<T("eve"), "missing temp.eve">>, <<T("morn"), "missing temp.morn">>,
            <<feels_like_obj, "missing feels_like object">>,
            <<FL("day"), "missing feels_like.day">>,
            <<FL("night"), "missing feels_like.night">>,
            <<FL("eve"), "missing feels_like.eve">>,
            <<FL("morn"), "missing feels_like.morn">>,
            <<pressure, "missing pressure">>, <<humidity, "missing humidity">>,
            <<dew_point, "missing dew_point">>, <<wind_speed, "missing wind_speed">>,
            <<wind_deg, "missing wind_deg">>, <<clouds, "missing clouds">>,
            <<pop, "missing pop">>, <<uvi, "missing uvi">> >>)
        w == weather_first(item, "missing weather array")
    IN  IF IsSome(miss) THEN Err(<<Unwrap(miss)>>)
        ELSE IF ~w.ok THEN w
        ELSE Ok([forecast_date |-> Unwrap(dt),
                 sunrise_time |-> Unwrap(sunrise),
                 sunset_time |-> Unwrap(sunset),
                 moonrise_time |-> Unwrap(moonrise),
                 moonset_time |-> Unwrap(moonset),
                 moon_phase_fraction |-> Unwrap(moon_phase),
                 temperature_day_temp |-> Unwrap(T("day")),
                 temperature_min_temp |-> Unwrap(T("min")),
                 temperature_max_temp |-> Unwrap(T("max")),
                 temperature_night_temp |-> Unwrap(T("night")),
                 temperature_evening_temp |-> Unwrap(T("eve")),
                 temperature_morning_temp |-> Unwrap(T("morn")),
                 apparent_temperature_day_temp |-> Unwrap(FL("day")),
                 apparent_temperature_night_temp |-> Unwrap(FL("night")),
                 apparent_temperature_evening_temp |-> Unwrap(FL("eve")),
                 apparent_temperature_morning_temp |-> Unwrap(FL("morn")),
                 pressure_hpa |-> Unwrap(pressure),
                 humidity_pct |-> Unwrap(humidity),
                 dew_point_temp |-> Unwrap(dew_point),
                 wind_speed_m_s |-> Unwrap(wind_speed),
                 wind_direction_deg |-> Unwrap(wind_deg),
                 wind_gust_speed_m_s |-> GetF64(item, "wind_gust"),
                 cloud_cover_pct |-> Unwrap(clouds),
                 precipitation_probability |-> Unwrap(pop),
                 rain_volume_mm |-> GetF64(item, "rain"),
                 snow_volume_mm |-> GetF64(item, "snow"),
                 uv_index |-> Unwrap(uvi),
                 weather_condition |-> w.v.main,
                 weather_description |-> w.v.description,
                 weather_icon_code |-> w.v.icon])

DailyFields ==
    {"forecast_date", "sunrise_time", "sunset_time", "moonrise_time",
     "moonset_time", "moon_phase_fraction", "temperature_day_temp",
     "temperature_min_temp", "temperature_max_temp", "temperature_night_temp",
     "temperature_evening_temp", "temperature_morning_temp",
     "apparent_temperature_day_temp", "apparent_temperature_night_temp",
     "apparent_temperature_evening_temp", "apparent_temperature_morning_temp",
     "pressure_hpa", "humidity_pct", "dew_point_temp", "wind_speed_m_s",
     "wind_direction_deg", "wind_gust_speed_m_s", "cloud_cover_pct",
     "precipitation_probability", "rain_volume_mm", "snow_volume_mm", "uv_index",
     "weather_condition", "weather_description", "weather_icon_code"}

parse_daily_forecast(self, resp_json) ==
    LET daily_arr == GetArray(resp_json, "daily")
    IN  IF IsNone(daily_arr) THEN Err(<<"missing 'daily' array">>)
        ELSE
        LET items == [i \in 1..Len(Unwrap(daily_arr)) |->
                         daily_item(Unwrap(daily_arr)[i])]
            failed == FirstErr(items)
        IN  IF IsSome(failed) THEN Err(Unwrap(failed))
            ELSE Ok([self EXCEPT !.data =
                     [f \in DailyFields |-> Column(items, f)]
                     @@ [variant |-> "DailyForecast",
                         latitude |-> self.latitude,
                         longitude |-> self.longitude]])

\* one AlertRow; nothing in an alert is required
alert_row(alert) ==
    LET tags == GetArray(alert, "tags")
        strs == IF IsSome(tags)
                THEN SelectSeq(Unwrap(tags), LAMBDA t : IsSome(as_str(t)))
                ELSE <<>>
    IN  [alert_sender_name |-> UnwrapOr(GetStr(alert, "sender_name"), "Unknown"),
         alert_event_type |-> UnwrapOr(GetStr(alert, "event"), "Unknown"),
         alert_start_time |-> UnwrapOr(GetI64(alert, "start"), 0),
         alert_end_time |-> UnwrapOr(GetI64(alert, "end"), 0),
         alert_description |-> UnwrapOr(GetStr(alert, "description"), ""),
         alert_tags |-> [i \in 1..Len(strs) |-> Unwrap(as_str(strs[i]))]]

\* A decoder that treats the absent 'alerts' key as a decode failure.
parse_weather_alerts_requires_key(self, resp_json) ==
    LET alerts_arr == GetArray(resp_json, "alerts")
    IN  IF IsNone(alerts_arr) THEN Err(<<"missing alerts array">>)
        ELSE Ok([self EXCEPT !.data =
                 [variant |-> "WeatherAlerts",
                  latitude |-> self.latitude,
                  longitude |-> self.longitude,
                  alerts |-> [i \in 1..Len(Unwrap(alerts_arr)) |->
                                 alert_row(Unwrap(alerts_arr)[i])]]])

parse_weather_alerts(self, resp_json) ==
    LET alerts_arr == GetArray(resp_json, "alerts")
        Alerts(rows) == [variant |-> "WeatherAlerts",
                         latitude |-> self.latitude,
                         longitude |-> self.longitude,
                         alerts |-> rows]
    IN  IF IsNone(alerts_arr) THEN Ok([self EXCEPT !.data = Alerts(<<>>)])
        ELSE Ok([self EXCEPT !.data =
                 Alerts([i \in 1..Len(Unwrap(alerts_arr)) |->
                            alert_row(Unwrap(alerts_arr)[i])])])

\* the single row decoded from one element of 'data'
historical_row(self, historical) ==
        LET dt == GetI64(historical, "dt")
            temp == GetF64(historical, "temp")
            feels_like == GetF64(historical, "feels_like")
            pressure == GetI64(historical, "pressure")
            humidity == GetI64(historical, "humidity")
            dew_point == GetF64(historical, "dew_point")
            clouds == GetI64(historical, "clouds")
            visibility == GetI64(historical, "visibility")
            wind_speed == GetF64(historical, "wind_speed")
            wind_deg == GetI64(historical, "wind_deg")
            miss == FirstMissing(<<
                <<dt, "missing dt">>, <<temp, "missing temp">>,
                <<feels_like, "missing feels_like">>,
                <<pressure, "missing pressure">>, <<humidity, "missing humidity">>,
                <<dew_point, "missing dew_point">>, <<clouds, "missing clouds">>,
                <<visibility, "missing visibility">>,
                <<wind_speed, "missing wind_speed">>,
                <<wind_deg, "missing wind_deg">> >>)
            w == weather_first(historical, "missing weather array")
        IN  IF IsSome(miss) THEN Err(<<Unwrap(miss)>>)
            ELSE IF ~w.ok THEN w
            ELSE Ok([self EXCEPT !.data =
                [variant |-> "HistoricalWeather",
                 latitude |-> self.latitude,
                 longitude |-> self.longitude,
                 observation_time |-> Unwrap(dt),
                 temperature_temp |-> Unwrap(temp),
                 apparent_temperature_temp |-> Unwrap(feels_like),
                 pressure_hpa |-> Unwrap(pressure),
                 humidity_pct |-> Unwrap(humidity),
                 dew_point_temp |-> Unwrap(dew_point),
                 cloud_cover_pct |-> Unwrap(clouds),
                 visibility_m |-> Unwrap(visibility),
                 wind_speed_m_s |-> Unwrap(wind_speed),
                 wind_direction_deg |-> Unwrap(wind_deg),
                 weather_condition |-> w.v.main,
                 weather_description |-> w.v.description,
                 weather_icon_code |-> w.v.icon]])

\* A decoder that reads the most recent (last) element of 'data'.
parse_historical_weather_last(self, resp_json) ==
    LET data_arr == GetArray(resp_json, "data")
    IN  IF IsNone(data_arr)
        THEN Err(<<"missing 'data' array in timemachine response">>)
        ELSE IF Len(Unwrap(data_arr)) = 0 THEN Err(<<"data array is empty">>)
        ELSE historical_row(self, Unwrap(data_arr)[Len(Unwrap(data_arr))])

parse_historical_weather(self, resp_json) ==
    LET data_arr == GetArray(resp_json, "data")
    IN  IF IsNone(data_arr)
        THEN Err(<<"missing 'data' array in timemachine response">>)
        ELSE IF Len(Unwrap(data_arr)) = 0 THEN Err(<<"data array is empty">>)
        ELSE historical_row(self, Unwrap(data_arr)[1])

\* obj.get(outer).as_object().get(inner).as_f64().unwrap_or(0.0)
NestedF64Or0(val, outer, inner) ==
    UnwrapOr(GetF64In(GetObject(val, outer), inner), 0)

parse_daily_summary(self, resp_json) ==
    LET lat == GetF64(resp_json, "lat")
        lon == GetF64(resp_json, "lon")
        temp_obj == GetObject(resp_json, "temperature")
        T(k) == GetF64In(temp_obj, k)
        wind_obj == GetObject(resp_json, "wind")
        wind_max == GetObjectIn(wind_obj, "max")
        WM(k) == GetF64In(wind_max, k)
        miss == FirstMissing(<<
            <<lat, "missing lat">>, <<lon, "missing lon">>,
            <<temp_obj, "missing temperature object">>,
            <<T("min"), "missing temperature.min">>,
            <<T("max"), "missing temperature.max">>,
            <<wind_obj, "missing wind object">>,
            <<wind_max, "missing wind.max">> >>)
    IN  IF IsSome(miss) THEN Err(<<Unwrap(miss)>>)
        ELSE Ok([self EXCEPT !.data =
            [variant |-> "DailySummary",
             latitude |-> Unwrap(lat),
             longitude |-> Unwrap(lon),
             timezone_offset |-> UnwrapOr(GetStr(resp_json, "tz"), "+00:00"),
             summary_date |-> UnwrapOr(GetStr(resp_json, "date"), ""),
             unit_system |-> UnwrapOr(GetStr(resp_json, "units"), "metric"),
             temperature_min_temp |-> Unwrap(T("min")),
             temperature_max_temp |-> Unwrap(T("max")),
             temperature_morning_temp |-> UnwrapOr(T("morning"), 0),
             temperature_afternoon_temp |-> UnwrapOr(T("afternoon"), 0),
             temperature_evening_temp |-> UnwrapOr(T("evening"), 0),
             temperature_night_temp |-> UnwrapOr(T("night"), 0),
             cloud_cover_afternoon_pct |->
                 NestedF64Or0(resp_json, "cloud_cover", "afternoon"),
             humidity_afternoon_pct |->
                 NestedF64Or0(resp_json, "humidity", "afternoon"),
             pressure_afternoon_hpa |->
                 NestedF64Or0(resp_json, "pressure", "afternoon"),
             precipitation_total_mm |->
                 NestedF64Or0(resp_json, "precipitation", "total"),
             wind_max_speed_m_s |-> UnwrapOr(WM("speed"), 0),
             wind_max_direction_deg |-> UnwrapOr(WM("direction"), 0)]])

parse_weather_overview(self, resp_json) ==
    LET lat == GetF64(resp_json, "lat")
        lon == GetF64(resp_json, "lon")
        miss == FirstMissing(<< <<lat, "missing lat">>, <<lon, "missing lon">> >>)
    IN  IF IsSome(miss) THEN Err(<<Unwrap(miss)>>)
        ELSE Ok([self EXCEPT !.data =
            [variant |-> "WeatherOverview",
             latitude |-> Unwrap(lat),
             longitude |-> Unwrap(lon),
             timezone_offset |-> UnwrapOr(GetStr(resp_json, "tz"), "+00:00"),
             overview_date |-> UnwrapOr(GetStr(resp_json, "date"), ""),
             unit_system |-> UnwrapOr(GetStr(resp_json, "units"), "metric"),
             weather_overview |->
                 UnwrapOr(GetStr(resp_json, "weather_overview"), "")]])

----------------------------------------------------------------------------
(* get_cell_value: the cell of one column at self.current_row *)


\* seconds * 1_000_000 (the model's timestamps stay far below the i64 range)
\* i64 modelled at a width of 32 bits: the largest value, and the products with
\* 1_000_000 that leave the range
I64_MAX == 2147483647
MulOverflows(seconds) ==
    seconds > I64_MAX \div MICROS \/ seconds < -(I64_MAX \div MICROS)

\* the low word of seconds * 1_000_000 in two's complement, computed on
\* half words
wrapping_mul_micros(seconds) ==
    LET Half == 65536
        sl == seconds % Half
        sh == (seconds \div Half) % Half
        ml == MICROS % Half
        mh == MICROS \div Half
        lo == sl * ml
        hi == (sh * ml + sl * mh + lo \div Half) % Half
    IN  (IF hi >= Half \div 2 THEN hi - Half ELSE hi) * Half + (lo % Half)

\* `seconds * 1_000_000` of a build without overflow checks
ToMicros(seconds) ==
    IF MulOverflows(seconds) THEN wrapping_mul_micros(seconds) ELSE seconds * MICROS

\* the panic of a build with overflow checks
Panic == [ok |-> FALSE, msg |-> <<"attempt to multiply with overflow">>]

\* vec.get(idx), idx counted from 0
\* A lookup that ignores the cursor and reads the first element.
VecGet_first(vec, idx) == IF idx < Len(vec) THEN Some(vec[1]) ELSE None
VecGet(vec, idx) == IF idx < Len(vec) THEN Some(vec[idx + 1]) ELSE None
\* opt.map(...) into each cell variant
MapNumeric(o) == IF IsSome(o) THEN Some(Numeric(Unwrap(o))) ELSE None
MapString(o) == IF IsSome(o) THEN Some(String(Unwrap(o))) ELSE None
MapTimestamptz(o) == IF IsSome(o) THEN Some(Timestamptz(ToMicros(Unwrap(o)))) ELSE None
\* vec.get(idx).and_then(|v| v.map(...)) for a vector of optional numbers
MapNumericOpt(o) == IF IsSome(o) THEN MapNumeric(Unwrap(o)) ELSE None
NumericOfInt(n) == Numeric(IntAsF64(n))
MapNumericOfInt(o) == IF IsSome(o) THEN Some(NumericOfInt(Unwrap(o))) ELSE None

\* Vec<String>::join(",")
RECURSIVE JoinComma(_)
JoinComma(tags) ==
    IF Len(tags) = 0 THEN ""
    ELSE IF Len(tags) = 1 THEN tags[1]
    ELSE tags[1] \o "," \o JoinComma(Tail(tags))

UnknownColumn(name, endpoint) == Err(<<"unknown column", name, "for endpoint", endpoint>>)

cell_current_weather(d, name) ==
    CASE name \in {"latitude", "longitude", "temperature_temp",
                   "apparent_temperature_temp", "dew_point_temp", "uv_index",
                   "wind_speed_m_s"} -> Ok(Some(Numeric(d[name])))
      [] name \in {"pressure_hpa", "humidity_pct", "cloud_cover_pct",
                   "visibility_m", "wind_direction_deg"} ->
             Ok(Some(NumericOfInt(d[name])))
      [] name = "observation_time" ->
             Ok(Some(Timestamptz(ToMicros(d.observation_time))))
      [] name = "wind_gust_speed_m_s" -> Ok(MapNumeric(d.wind_gust_speed_m_s))
      [] name \in {"timezone_name", "weather_condition", "weather_description",
                   "weather_icon_code"} -> Ok(Some(String(d[name])))
      [] OTHER -> UnknownColumn(name, "current_weather")

cell_minutely_forecast(d, row_idx, name) ==
    CASE name \in {"latitude", "longitude"} -> Ok(Some(Numeric(d[name])))
      [] name = "forecast_time" ->
             Ok(MapTimestamptz(VecGet(d.forecast_time, row_idx)))
      [] name = "precipitation_mm" ->
             Ok(MapNumeric(VecGet(d.precipitation_mm, row_idx)))
      [] OTHER -> UnknownColumn(name, "minutely_forecast")

cell_hourly_forecast(d, row_idx, name) ==
    CASE name \in {"latitude", "longitude"} -> Ok(Some(Numeric(d[name])))
      [] name = "forecast_time" ->
             Ok(MapTimestamptz(VecGet(d.forecast_time, row_idx)))
      [] name \in {"temperature_temp", "apparent_temperature_temp",
                   "dew_point_temp", "uv_index", "wind_speed_m_s",
                   "precipitation_probability"} ->
             Ok(MapNumeric(VecGet(d[name], row_idx)))
      [] name \in {"pressure_hpa", "humidity_pct", "cloud_cover_pct",
                   "visibility_m", "wind_direction_deg"} ->
             Ok(MapNumericOfInt(VecGet(d[name], row_idx)))
      [] name \in {"wind_gust_speed_m_s", "rain_volume_1h_mm",
                   "snow_volume_1h_mm"} ->
             Ok(MapNumericOpt(VecGet(d[name], row_idx)))
      [] name \in {"weather_condition", "weather_description",
                   "weather_icon_code"} ->
             Ok(MapString(VecGet(d[name], row_idx)))
      [] OTHER -> UnknownColumn(name, "hourly_forecast")

cell_daily_forecast(d, row_idx, name) ==
    CASE name \in {"latitude", "longitude"} -> Ok(Some(Numeric(d[name])))
      [] name \in {"forecast_date", "sunrise_time", "sunset_time",
                   "moonrise_time", "moonset_time"} ->
             Ok(MapTimestamptz(VecGet(d[name], row_idx)))
      [] name \in {"moon_phase_fraction", "temperature_day_temp",
                   "temperature_min_temp", "temperature_max_temp",
                   "temperature_night_temp", "temperature_evening_temp",
                   "temperature_morning_temp", "apparent_temperature_day_temp",
                   "apparent_temperature_night_temp",
                   "apparent_temperature_evening_temp",
                   "apparent_temperature_morning_temp", "dew_point_temp",
                   "wind_speed_m_s", "precipitation_probability", "uv_index"} ->
             Ok(MapNumeric(VecGet(d[name], row_idx)))
      [] name \in {"pressure_hpa", "humidity_pct", "wind_direction_deg",
                   "cloud_cover_pct"} ->
             Ok(MapNumericOfInt(VecGet(d[name], row_idx)))
      [] name \in {"wind_gust_speed_m_s", "rain_volume_mm", "snow_volume_mm"} ->
             Ok(MapNumericOpt(VecGet(d[name], row_idx)))
      [] name \in {"weather_condition", "weather_description",
                   "weather_icon_code"} ->
             Ok(MapString(VecGet(d[name], row_idx)))
      [] OTHER -> UnknownColumn(name, "daily_forecast")

cell_weather_alerts(d, row_idx, name) ==
    LET got == VecGet(d.alerts, row_idx)
    IN  IF IsNone(got) THEN Err(<<"alert index out of bounds">>)
        ELSE
        LET alert == Unwrap(got)
        IN  CASE name \in {"latitude", "longitude"} -> Ok(Some(Numeric(d[name])))
              [] name \in {"alert_sender_name", "alert_event_type",
                           "alert_description"} -> Ok(Some(String(alert[name])))
              [] name \in {"alert_start_time", "alert_end_time"} ->
                     Ok(Some(Timestamptz(ToMicros(alert[name]))))
              [] name = "alert_tags" -> Ok(Some(String(JoinComma(alert.alert_tags))))
              [] OTHER -> UnknownColumn(name, "weather_alerts")

cell_historical_weather(d, name) ==
    CASE name \in {"latitude", "longitude", "temperature_temp",
                   "apparent_temperature_temp", "dew_point_temp",
                   "wind_speed_m_s"} -> Ok(Some(Numeric(d[name])))
      [] name \in {"pressure_hpa", "humidity_pct", "cloud_cover_pct",
                   "visibility_m", "wind_direction_deg"} ->
             Ok(Some(NumericOfInt(d[name])))
      [] name = "observation_time" ->
             Ok(Some(Timestamptz(ToMicros(d.observation_time))))
      [] name \in {"weather_condition", "weather_description",
                   "weather_icon_code"} -> Ok(Some(String(d[name])))
      [] OTHER -> UnknownColumn(name, "historical_weather")

cell_daily_summary(d, name) ==
    CASE name \in {"latitude", "longitude", "temperature_min_temp",
                   "temperature_max_temp", "temperature_morning_temp",
                   "temperature_afternoon_temp", "temperature_evening_temp",
                   "temperature_night_temp", "cloud_cover_afternoon_pct",
                   "humidity_afternoon_pct", "pressure_afternoon_hpa",
                   "precipitation_total_mm", "wind_max_speed_m_s",
                   "wind_max_direction_deg"} -> Ok(Some(Numeric(d[name])))
      [] name \in {"timezone_offset", "summary_date", "unit_system"} ->
             Ok(Some(String(d[name])))
      [] OTHER -> UnknownColumn(name, "daily_summary")

cell_weather_overview(d, name) ==
    CASE name \in {"latitude", "longitude"} -> Ok(Some(Numeric(d[name])))
      [] name \in {"timezone_offset", "overview_date", "unit_system",
                   "weather_overview"} -> Ok(Some(String(d[name])))
      [] OTHER -> UnknownColumn(name, "weather_overview")

\* the stored epoch seconds that the column's arm multiplies by 1_000_000
TimestampSeconds(d, row_idx, name) ==
    CASE d.variant \in {"CurrentWeather", "HistoricalWeather"}
             /\ name = "observation_time" -> Some(d.observation_time)
      [] d.variant \in {"MinutelyForecast", "HourlyForecast"}
             /\ name = "forecast_time" -> VecGet(d.forecast_time, row_idx)
      [] d.variant = "DailyForecast"
             /\ name \in {"forecast_date", "sunrise_time", "sunset_time",
                           "moonrise_time", "moonset_time"} -> VecGet(d[name], row_idx)
      [] d.variant = "WeatherAlerts"
             /\ name \in {"alert_start_time", "alert_end_time"}
             /\ row_idx < Len(d.alerts) -> Some(d.alerts[row_idx + 1][name])
      [] OTHER -> None

MulPanics(d, row_idx, name) ==
    LET s == TimestampSeconds(d, row_idx, name)
    IN  IsSome(s) /\ MulOverflows(Unwrap(s))

get_cell_value(self, tgt_col_name) ==
    LET row_idx == self.current_row
        d == self.data
    IN  IF row_idx >= row_count(d) THEN Err(<<"row index out of bounds">>)
        ELSE IF overflow_checks /\ MulPanics(d, row_idx, tgt_col_name) THEN Panic
        ELSE CASE d.variant = "CurrentWeather" -> cell_current_weather(d, tgt_col_name)
               [] d.variant = "MinutelyForecast" ->
                      cell_minutely_forecast(d, row_idx, tgt_col_name)
               [] d.variant = "HourlyForecast" ->
                      cell_hourly_forecast(d, row_idx, tgt_col_name)
               [] d.variant = "DailyForecast" ->
                      cell_daily_forecast(d, row_idx, tgt_col_name)
               [] d.variant = "WeatherAlerts" ->
                      cell_weather_alerts(d, row_idx, tgt_col_name)
               [] d.variant = "HistoricalWeather" ->
                      cell_historical_weather(d, tgt_col_name)
               [] d.variant = "DailySummary" -> cell_daily_summary(d, tgt_col_name)
               [] d.variant = "WeatherOverview" ->
                      cell_weather_overview(d, tgt_col_name)
               [] OTHER -> Err(<<"no data loaded - fetch_source_data not called">>)

----------------------------------------------------------------------------
(* fetch_source_data.  `http` is what the host's HTTP client answers when    *)
(* the request is executed: [sent |-> FALSE] for a failed http::get, else   *)
(* [sent |-> TRUE, status_code, body] with body.valid telling whether the   *)
(* body text is JSON and body.json the parsed document.                     *)

\* error_for_status that reports client errors only
error_for_status_client_only(resp) ==
    resp.status_code >= 400 /\ resp.status_code < 500

\* http::error_for_status
error_for_status(resp) == resp.status_code >= 400 /\ resp.status_code < 600

\* serde_json::from_str(&resp.body)
from_str(body) ==
    IF body.valid THEN Ok(body.json) ELSE Err(<<"JSON parse error">>)

\* the match on endpoint_type that picks the decoder
parse_response(self, endpoint_type, resp_json) ==
    CASE endpoint_type = "CurrentWeather" -> parse_current_weather(self, resp_json)
      [] endpoint_type = "MinutelyForecast" -> parse_minutely_forecast(self, resp_json)
      [] endpoint_type = "HourlyForecast" -> parse_hourly_forecast(self, resp_json)
      [] endpoint_type = "DailyForecast" -> parse_daily_forecast(self, resp_json)
      [] endpoint_type = "WeatherAlerts" -> parse_weather_alerts(self, resp_json)
      [] endpoint_type = "HistoricalWeather" -> parse_historical_weather(self, resp_json)
      [] endpoint_type = "DailySummary" -> parse_daily_summary(self, resp_json)
      [] endpoint_type = "WeatherOverview" -> parse_weather_overview(self, resp_json)

\* the outcome of a call: the instance after it, its result, the requests it sent
Outcome(self, res, reqs) == [self |-> self, res |-> res, reqs |-> reqs]

\* fetch_source_data that drops the rows it holds when the decoder fails
store_parsed_drops_rows(self, parsed, reqs) ==
    IF ~parsed.ok THEN Outcome([self EXCEPT !.data = DataNone], parsed, reqs)
    ELSE Outcome([parsed.v EXCEPT !.current_row = 0], Ok(TRUE), reqs)

\* the end of fetch_source_data without `self.current_row = 0`
store_parsed_keeps_cursor(self, parsed, reqs) ==
    IF ~parsed.ok THEN Outcome(self, parsed, reqs)
    ELSE Outcome(parsed.v, Ok(TRUE), reqs)

\* the tail of fetch_source_data: `?` on the decoder's result, then
\* self.current_row = 0
store_parsed(self, parsed, reqs) ==
    IF ~parsed.ok THEN Outcome(self, parsed, reqs)
    ELSE Outcome([parsed.v EXCEPT !.current_row = 0], Ok(TRUE), reqs)

\* fetch_source_data from http::get on, req being the request just built
send_and_parse(self, endpoint_type, req, http) ==
    IF ~req.ok THEN Outcome(self, req, <<>>)
    ELSE IF ~http.sent THEN Outcome(self, Err(<<"http error">>), <<req.v>>)
    ELSE IF error_for_status(http)
    THEN Outcome(self, Err(<<"http status", http.status_code>>), <<req.v>>)
    ELSE
    LET resp_json == from_str(http.body)
    IN  IF ~resp_json.ok THEN Outcome(self, resp_json, <<req.v>>)
        ELSE store_parsed(self, parse_response(self, endpoint_type, resp_json.v),
                          <<req.v>>)

\* fetch_source_data that sends the request a second time when the first
\* attempt fails in transport
fetch_source_data_retries(self, http) ==
    IF IsNone(self.endpoint_type)
    THEN Outcome(self, Err(<<"endpoint type not set - call begin_scan first">>), <<>>)
    ELSE LET out == send_and_parse(self, Unwrap(self.endpoint_type),
                                   create_request(self), http)
         IN  [out EXCEPT !.reqs = IF http.sent THEN @ ELSE @ \o @]

fetch_source_data(self, http) ==
    IF IsNone(self.endpoint_type)
    THEN Outcome(self, Err(<<"endpoint type not set - call begin_scan first">>), <<>>)
    ELSE send_and_parse(self, Unwrap(self.endpoint_type), create_request(self), http)

----------------------------------------------------------------------------
(* Guest: the functions the host calls *)

DefaultBaseUrl == "https://api.openweathermap.org/data/3.0"

\* Guest::init: a fresh default instance, then the server options
guest_init(opts) ==
    LET fresh == [DefaultInstance EXCEPT !.base_url = UnwrapOr(opts.api_url, DefaultBaseUrl)]
    IN  IF IsNone(opts.api_key)
        THEN Outcome(fresh, Err(<<"api_key is required in server options">>), <<>>)
        ELSE Outcome([fresh EXCEPT
                         !.api_key = Unwrap(opts.api_key),
                         !.headers = <<
                             <<"user-agent", "Supabase Wrappers OpenWeather FDW">>,
                             <<"accept", "application/json">> >>],
                     Ok(TRUE), <<>>)

\* begin_scan that keeps the stored units and lang when the predicates give none
begin_scan_prepare_keeps_units(self, ctx) ==
    IF IsNone(ctx.opts.object)
    THEN Outcome(self, Err(<<"'object' option is required">>), <<>>)
    ELSE
    LET resolved == from_object_name(Unwrap(ctx.opts.object))
    IN  IF ~resolved.ok THEN Outcome(self, resolved, <<>>)
        ELSE
        LET endpoint_type == resolved.v
            s1 == [self EXCEPT !.endpoint_type = Some(endpoint_type)]
            quals == ctx.quals
            loc == extract_and_validate_location(quals)
        IN  IF ~loc.ok THEN Outcome(s1, loc, <<>>)
            ELSE
            LET s2 == [s1 EXCEPT
                         !.latitude = loc.v.latitude,
                         !.longitude = loc.v.longitude,
                         !.units = UnwrapOr(extract_qual_string(quals, "units"), self.units),
                         !.lang = UnwrapOr(extract_qual_string(quals, "lang"), self.lang)]
            IN  CASE endpoint_type = "HistoricalWeather" ->
                       LET observation_time ==
                               extract_qual_timestamptz(quals, "observation_time")
                       IN  IF IsNone(observation_time)
                           THEN Outcome(s2, Err(<<"WHERE clause must include 'observation_time' for historical_weather">>), <<>>)
                           ELSE Outcome([s2 EXCEPT !.dt =
                                            Some(TruncDiv(Unwrap(observation_time), MICROS))],
                                        Ok(TRUE), <<>>)
                  [] endpoint_type = "DailySummary" ->
                       LET summary_date == extract_qual_string(quals, "summary_date")
                       IN  IF IsNone(summary_date)
                           THEN Outcome(s2, Err(<<"WHERE clause must include 'summary_date' (YYYY-MM-DD format) for daily_summary">>), <<>>)
                           ELSE Outcome([s2 EXCEPT
                                            !.date = summary_date,
                                            !.timezone_offset =
                                                extract_qual_string(quals, "timezone_offset")],
                                        Ok(TRUE), <<>>)
                  [] endpoint_type = "WeatherOverview" ->
                       Outcome([s2 EXCEPT !.date =
                                   extract_qual_string(quals, "overview_date")],
                               Ok(TRUE), <<>>)
                  [] OTHER -> Outcome(s2, Ok(TRUE), <<>>)

\* begin_scan up to the call of fetch_source_data: table option and quals
begin_scan_prepare(self, ctx) ==
    IF IsNone(ctx.opts.object)
    THEN Outcome(self, Err(<<"'object' option is required">>), <<>>)
    ELSE
    LET resolved == from_object_name(Unwrap(ctx.opts.object))
    IN  IF ~resolved.ok THEN Outcome(self, resolved, <<>>)
        ELSE
        LET endpoint_type == resolved.v
            s1 == [self EXCEPT !.endpoint_type = Some(endpoint_type)]
            quals == ctx.quals
            loc == extract_and_validate_location(quals)
        IN  IF ~loc.ok THEN Outcome(s1, loc, <<>>)
            ELSE
            LET s2 == [s1 EXCEPT
                         !.latitude = loc.v.latitude,
                         !.longitude = loc.v.longitude,
                         !.units = UnwrapOr(extract_qual_string(quals, "units"), "metric"),
                         !.lang = UnwrapOr(extract_qual_string(quals, "lang"), "en")]
            IN  CASE endpoint_type = "HistoricalWeather" ->
                       LET observation_time ==
                               extract_qual_timestamptz(quals, "observation_time")
                       IN  IF IsNone(observation_time)
                           THEN Outcome(s2, Err(<<"WHERE clause must include 'observation_time' for historical_weather">>), <<>>)
                           ELSE Outcome([s2 EXCEPT !.dt =
                                            Some(TruncDiv(Unwrap(observation_time), MICROS))],
                                        Ok(TRUE), <<>>)
                  [] endpoint_type = "DailySummary" ->
                       LET summary_date == extract_qual_string(quals, "summary_date")
                       IN  IF IsNone(summary_date)
                           THEN Outcome(s2, Err(<<"WHERE clause must include 'summary_date' (YYYY-MM-DD format) for daily_summary">>), <<>>)
                           ELSE Outcome([s2 EXCEPT
                                            !.date = summary_date,
                                            !.timezone_offset =
                                                extract_qual_string(quals, "timezone_offset")],
                                        Ok(TRUE), <<>>)
                  [] endpoint_type = "WeatherOverview" ->
                       Outcome([s2 EXCEPT !.date =
                                   extract_qual_string(quals, "overview_date")],
                               Ok(TRUE), <<>>)
                  [] OTHER -> Outcome(s2, Ok(TRUE), <<>>)

\* iter_scan that emits the row and leaves the cursor where it was
iter_scan_call_stuck(self, columns) ==
    IF self.current_row >= row_count(self.data)
    THEN [self |-> self, kind |-> "eod", msg |-> <<>>, row |-> <<>>]
    ELSE [self |-> self, kind |-> "row", msg |-> <<>>,
          row |-> [i \in 1..Len(columns) |-> get_cell_value(self, columns[i]).v]]

\* iter_scan that moves the cursor past a row it could not emit
iter_scan_call_skips_failed_row(self, columns) ==
    IF self.current_row >= row_count(self.data)
    THEN [self |-> self, kind |-> "eod", msg |-> <<>>, row |-> <<>>]
    ELSE
    LET cells == [i \in 1..Len(columns) |-> get_cell_value(self, columns[i])]
        bad == {i \in 1..Len(columns) : ~cells[i].ok}
    IN  IF bad # {}
        THEN [self |-> [self EXCEPT !.current_row = self.current_row + 1],
              kind |-> IF cells[Min(bad)] = Panic THEN "panic" ELSE "err",
              msg |-> cells[Min(bad)].msg,
              row |-> [i \in 1..(Min(bad) - 1) |-> cells[i].v]]
        ELSE [self |-> [self EXCEPT !.current_row = self.current_row + 1],
              kind |-> "row", msg |-> <<>>,
              row |-> [i \in 1..Len(columns) |-> cells[i].v]]

\* iter_scan: Ok(None) at the end of the rowset, else one row and the cursor moves
iter_scan_call(self, columns) ==
    IF self.current_row >= row_count(self.data)
    THEN [self |-> self, kind |-> "eod", msg |-> <<>>, row |-> <<>>]
    ELSE
    LET cells == [i \in 1..Len(columns) |-> get_cell_value(self, columns[i])]
        bad == {i \in 1..Len(columns) : ~cells[i].ok}
    IN  IF bad # {}
        THEN [self |-> self,
              kind |-> IF cells[Min(bad)] = Panic THEN "panic" ELSE "err",
              msg |-> cells[Min(bad)].msg,
              row |-> [i \in 1..(Min(bad) - 1) |-> cells[i].v]]
        ELSE [self |-> [self EXCEPT !.current_row = self.current_row + 1],
              kind |-> "row", msg |-> <<>>,
              row |-> [i \in 1..Len(columns) |-> cells[i].v]]

\* end_scan that forgets to rewind the cursor
end_scan_call_keeps_cursor(self) ==
    [self EXCEPT !.endpoint_type = None, !.data = DataNone]

\* end_scan that clears the endpoint and leaves the rowset and cursor
end_scan_call_keeps_rows(self) == [self EXCEPT !.endpoint_type = None]

end_scan_call(self) ==
    [self EXCEPT !.endpoint_type = None, !.data = DataNone, !.current_row = 0]

\* re_scan that rewinds to the first row
re_scan_call_rewinds(self) == [self EXCEPT !.current_row = 0]

re_scan_call(self) == self

----------------------------------------------------------------------------
(* The state machine *)

\* what a Context holds for the functions that read none of it
\* the inputs of a call: the Context the host passes and, for a begin_scan
\* that sent its request, the reply the HTTP client gave
NoCtx ==
    [opts |-> [object |-> None], quals |-> <<>>, columns |-> <<>>, reply |-> None]
ScanCtx(opts, quals) ==
    [opts |-> opts, quals |-> quals, columns |-> <<>>, reply |-> None]
IterCtx(columns) ==
    [opts |-> [object |-> None], quals |-> <<>>, columns |-> columns, reply |-> None]

ResOk == [kind |-> "ok", msg |-> <<>>, row |-> <<>>]
ResErr(m) == [kind |-> "err", msg |-> m, row |-> <<>>]
ResOf(res) == IF res.ok THEN ResOk ELSE ResErr(res.msg)

\* a call returns: the instance and the record of the call
Return(op, self, result, reqs, ctx, n) ==
    /\ inst' = self
    /\ lastOp' = op
    /\ lastCtx' = ctx
    /\ lastResult' = result
    /\ issued' = reqs
    /\ emitted' = n
    /\ overflow_checks' = overflow_checks

init(ServerOpts) ==
    \E opts \in ServerOpts :
        LET o == guest_init(opts)
        IN  Return("init", o.self, ResOf(o.res), o.reqs, NoCtx, 0)

\* the record of a call that ran to the outcome `out`
Returned(op, out, ctx, n) == Return(op, out.self, ResOf(out.res), out.reqs, ctx, n)

\* begin_scan's `?` on the preparation, then fetch_source_data
fetch_if_prepared(p, http) ==
    IF ~p.res.ok THEN p ELSE fetch_source_data(p.self, http)

begin_scan_call(self, ctx, http) ==
    fetch_if_prepared(begin_scan_prepare(self, ctx), http)

\* the row count the host has seen restarts with a scan that loaded a row set
EmittedAfterBegin(out, n) == IF out.res.ok THEN 0 ELSE n

BegunScan(out, ctx, http) ==
    Returned("begin_scan", out,
             [ctx EXCEPT !.reply = IF out.reqs = <<>> THEN None ELSE Some(http)],
             EmittedAfterBegin(out, emitted))

begin_scan(Ctxs, Https) ==
    \E ctx \in Ctxs, http \in Https :
        BegunScan(begin_scan_call(inst, ctx, http), ctx, http)

iter_scan(ColumnLists) ==
    \E columns \in ColumnLists :
        LET r == iter_scan_call(inst, columns)
        IN  Return("iter_scan", r.self,
                   [kind |-> r.kind, msg |-> r.msg, row |-> r.row], <<>>,
                   IterCtx(columns),
                   IF r.kind = "row" THEN emitted + 1 ELSE emitted)

end_scan == Return("end_scan", end_scan_call(inst), ResOk, <<>>, NoCtx, 0)

re_scan == Return("re_scan", re_scan_call(inst), ResOk, <<>>, NoCtx, emitted)

begin_modify ==
    Return("begin_modify", inst,
           ResErr(<<"OpenWeather FDW does not support data modification">>),
           <<>>, NoCtx, emitted)

\* INSERT rejected, but only after the scan cursor was rewound
insert_rewinds ==
    Return("insert", [inst EXCEPT !.current_row = 0],
           ResErr(<<"OpenWeather FDW does not support INSERT">>),
           <<>>, NoCtx, emitted)

insert ==
    Return("insert", inst, ResErr(<<"OpenWeather FDW does not support INSERT">>),
           <<>>, NoCtx, emitted)

update ==
    Return("update", inst, ResErr(<<"OpenWeather FDW does not support UPDATE">>),
           <<>>, NoCtx, emitted)

delete ==
    Return("delete", inst, ResErr(<<"OpenWeather FDW does not support DELETE">>),
           <<>>, NoCtx, emitted)

end_modify ==
    Return("end_modify", inst,
           ResErr(<<"OpenWeather FDW does not support data modification">>),
           <<>>, NoCtx, emitted)

----------------------------------------------------------------------------
(* Inputs: table options, quals, requested columns, API responses *)

Qual(field, operator, t, x) ==
    [field |-> field, operator |-> operator, value |-> Cell(t, x)]

\* 52.52, 13.405 as f64
Lat5252 == 525200
Lon13405 == 134050

GoodLocation ==
    <<Qual("latitude", "=", "F64", Lat5252), Qual("longitude", "=", "F64", Lon13405)>>

\* observation_time = 1700.5 s after the epoch, in microseconds
ObservationQual == Qual("observation_time", "=", "Timestamptz", 1700500000)
SummaryDateQual == Qual("summary_date", "=", "String", "2024-01-15")

\* the predicate lists of the lifecycle specification
ScanQuals ==
    { GoodLocation,
      GoodLocation \o <<ObservationQual, SummaryDateQual>>,
      <<Qual("longitude", "=", "F64", Lon13405)>>,
      <<Qual("latitude", "=", "F64", 90 * F64Scale + 1),
        Qual("longitude", "=", "F64", Lon13405)>> }

\* predicate lists around the location check: the end points of both ranges in
\* every numeric cell type, values just outside, and lists with no usable
\* equality predicate on a coordinate
Extras == <<ObservationQual, SummaryDateQual>>
LonGood == Qual("longitude", "=", "F64", Lon13405)
LatGood == Qual("latitude", "=", "F64", Lat5252)

LocationQuals ==
    { GoodLocation \o Extras,
      <<Qual("latitude", "=", "I64", 90), Qual("longitude", "=", "I32", 180)>> \o Extras,
      <<Qual("longitude", "=", "F64", -180 * F64Scale),
        Qual("latitude", "=", "Numeric", -90 * F64Scale)>> \o Extras,
      <<Qual("latitude", "=", "F64", 90 * F64Scale + 1), LonGood>> \o Extras,
      <<Qual("latitude", "=", "Numeric", -90 * F64Scale - 1), LonGood>> \o Extras,
      <<Qual("latitude", "=", "I64", 91), LonGood>> \o Extras,
      <<LatGood, Qual("longitude", "=", "F64", 180 * F64Scale + 1)>> \o Extras,
      <<LatGood, Qual("longitude", "=", "F64", -180 * F64Scale - 1)>> \o Extras,
      <<LonGood>> \o Extras,
      <<LatGood>> \o Extras,
      Extras,
      <<>>,
      <<Qual("latitude", "<", "F64", Lat5252), LonGood>> \o Extras,
      <<Qual("latitude", "=", "String", "52.52"), LonGood>> \o Extras,
      <<LatGood, Qual("longitude", ">=", "F64", Lon13405)>> \o Extras,
      <<LatGood, Qual("longitude", "=", "Bool", TRUE)>> \o Extras }

TableNames == {SupportedNames[i] : i \in 1..Len(SupportedNames)}

\* the 'object' table option: the given names, a name that is none of the eight,
\* and no option at all
TableOptions(names) ==
    {[object |-> Some(n)] : n \in names \cup {"Current_Weather"}}
    \cup {[object |-> None]}

\* the tables of the lifecycle specification: a one-row table, a many-row table,
\* a table that may have no row, a table with a required predicate of its own
ScanTables ==
    {"current_weather", "hourly_forecast", "weather_alerts", "historical_weather"}

Contexts(Options, QualLists) ==
    {ScanCtx(o, q) : o \in Options, q \in QualLists}

ServerOptions == {[api_url |-> None, api_key |-> Some("test-key")]}

ScanColumns ==
    { <<"latitude", "longitude">>,
      <<"forecast_time", "temperature_temp", "rain_volume_1h_mm">>,
      <<"observation_time", "weather_condition">>,
      <<"alert_tags", "alert_start_time">>,
      <<"latitude", "no_such_column">> }

WeatherArr(k) ==
    JArr(<<JObj(IF k % 2 = 1
                THEN [main |-> JStr("Rain"), description |-> JStr("light rain"),
                      icon |-> JStr("10d")]
                ELSE [main |-> JStr("Clouds")])>>)

CurrentObj ==
    JObj([dt |-> JInt(1000), temp |-> JFloat(215000), feels_like |-> JFloat(208000),
          pressure |-> JInt(1013), humidity |-> JInt(60), dew_point |-> JFloat(130000),
          uvi |-> JInt(3), clouds |-> JInt(40), visibility |-> JInt(10000),
          wind_speed |-> JFloat(51000), wind_deg |-> JInt(270),
          weather |-> WeatherArr(1)])

MinutelyObj(k) ==
    JObj(IF k % 2 = 1 THEN [dt |-> JInt(1000 + k), precipitation |-> JFloat(5000 * k)]
         ELSE [dt |-> JInt(1000 + k)])

HourlyObj(k) ==
    JObj([dt |-> JInt(1100 + k), temp |-> JFloat(200000 + k), feels_like |-> JInt(19),
          pressure |-> JInt(1010 + k), humidity |-> JInt(50 + k),
          dew_point |-> JFloat(90000), uvi |-> JFloat(1000 * k), clouds |-> JInt(k),
          visibility |-> JInt(9000), wind_speed |-> JFloat(30000 + k),
          wind_deg |-> JInt(90 * k), pop |-> JFloat(1000 * k),
          weather |-> WeatherArr(k)]
         @@ (IF k % 2 = 0
             THEN [wind_gust |-> JFloat(70000),
                   rain |-> JObj("1h" :> JFloat(25000)),
                   snow |-> JObj("3h" :> JFloat(10000))]
             ELSE <<>>))

DailyObj(k) ==
    JObj([dt |-> JInt(1200 + k), sunrise |-> JInt(1210 + k), sunset |-> JInt(1250 + k),
          moonrise |-> JInt(1260 + k), moonset |-> JInt(1205 + k),
          moon_phase |-> JFloat(2500 * k),
          temp |-> JObj([day |-> JFloat(220000 + k), min |-> JFloat(150000),
                         max |-> JFloat(240000), night |-> JFloat(160000),
                         eve |-> JFloat(200000), morn |-> JFloat(170000)]),
          feels_like |-> JObj([day |-> JFloat(210000), night |-> JFloat(150000),
                               eve |-> JFloat(190000), morn |-> JFloat(160000)]),
          pressure |-> JInt(1015), humidity |-> JInt(55), dew_point |-> JFloat(100000),
          wind_speed |-> JFloat(40000), wind_deg |-> JInt(180), clouds |-> JInt(20),
          pop |-> JFloat(2000), uvi |-> JFloat(50000), weather |-> WeatherArr(k)]
         @@ (IF k % 2 = 0
             THEN [wind_gust |-> JFloat(90000), rain |-> JFloat(12000)]
             ELSE <<>>))

AlertObj(k) ==
    JObj([sender_name |-> JStr("DWD"), event |-> JStr("Storm"),
          start |-> JInt(1300 + k), end |-> JInt(1400 + k),
          description |-> JStr("Gusts"),
          tags |-> JArr(<<JStr("Wind"), JInt(7), JStr("Rain")>>)])

HistoricalObj(k) ==
    JObj([dt |-> JInt(1700 + k), temp |-> JFloat(100000 + k), feels_like |-> JFloat(90000),
          pressure |-> JInt(1000), humidity |-> JInt(70), dew_point |-> JFloat(50000),
          clouds |-> JInt(75), visibility |-> JInt(8000), wind_speed |-> JFloat(20000),
          wind_deg |-> JInt(45), weather |-> WeatherArr(k)])

\* the /onecall document with n elements in each of its arrays
OneCallDoc(n) ==
    JObj([lat |-> JFloat(Lat5252), lon |-> JFloat(Lon13405),
          timezone |-> JStr("Europe/Berlin"),
          current |-> CurrentObj,
          minutely |-> JArr([k \in 1..n |-> MinutelyObj(k)]),
          hourly |-> JArr([k \in 1..n |-> HourlyObj(k)]),
          daily |-> JArr([k \in 1..n |-> DailyObj(k)]),
          alerts |-> JArr([k \in 1..n |-> AlertObj(k)])])

\* the /onecall/timemachine document
TimemachineDoc(n) ==
    JObj([lat |-> JFloat(Lat5252), lon |-> JFloat(Lon13405),
          data |-> JArr([k \in 1..n |-> HistoricalObj(k)])])

\* the /onecall/day_summary document
DaySummaryDoc ==
    JObj([lat |-> JFloat(Lat5252), lon |-> JFloat(Lon13405), tz |-> JStr("+01:00"),
          date |-> JStr("2024-01-15"), units |-> JStr("metric"),
          temperature |-> JObj([min |-> JFloat(10000), max |-> JFloat(80000),
                                afternoon |-> JFloat(70000)]),
          humidity |-> JObj([afternoon |-> JInt(65)]),
          precipitation |-> JObj([total |-> JFloat(12000)]),
          wind |-> JObj([max |-> JObj([speed |-> JFloat(60000),
                                       direction |-> JInt(200)])])])

\* the /onecall/overview document
OverviewDoc ==
    JObj([lat |-> JFloat(Lat5252), lon |-> JFloat(Lon13405), tz |-> JStr("+01:00"),
          date |-> JStr("2024-02-01"), units |-> JStr("metric"),
          weather_overview |-> JStr("Mild and cloudy")])

Replied(status_code, valid, json) ==
    [sent |-> TRUE, status_code |-> status_code,
     body |-> [valid |-> valid, json |-> json]]

HttpFailures ==
    { [sent |-> FALSE],
      Replied(401, TRUE, JObj([cod |-> JInt(401)])),
      Replied(200, FALSE, JStr("<html>")) }

ScanReplies ==
    HttpFailures
    \cup {Replied(200, TRUE, OneCallDoc(n)) : n \in 0..MaxRows}
    \cup {Replied(200, TRUE, TimemachineDoc(MaxRows))}

----------------------------------------------------------------------------
(* Spec: the scan lifecycle *)

\* the state after Guest::init with valid server options
Init ==
    /\ inst \in {guest_init(o).self : o \in ServerOptions}
    /\ lastOp = "init"
    /\ lastCtx = NoCtx
    /\ lastResult = ResOk
    /\ issued = <<>>
    /\ emitted = 0
    \* no timestamp of ScanReplies has a product that overflows: both builds
    \* behave alike here, TimeInit leaves the build open
    /\ overflow_checks = FALSE

Next ==
    \/ init(ServerOptions)
    \/ begin_scan(Contexts(TableOptions(ScanTables), ScanQuals), ScanReplies)
    \/ iter_scan(ScanColumns)
    \/ end_scan
    \/ re_scan
    \/ begin_modify
    \/ insert
    \/ update
    \/ delete
    \/ end_modify

Spec == Init /\ [][Next]_vars

----------------------------------------------------------------------------
(* The columns each foreign table declares (import_foreign_schema) *)

TableColumns(variant) ==
    CASE variant = "CurrentWeather" ->
           {"latitude", "longitude", "timezone_name", "observation_time",
            "temperature_temp", "apparent_temperature_temp", "pressure_hpa",
            "humidity_pct", "dew_point_temp", "uv_index", "cloud_cover_pct",
            "visibility_m", "wind_speed_m_s", "wind_direction_deg",
            "wind_gust_speed_m_s", "weather_condition", "weather_description",
            "weather_icon_code"}
      [] variant = "MinutelyForecast" ->
           {"latitude", "longitude", "forecast_time", "precipitation_mm"}
      [] variant = "HourlyForecast" -> {"latitude", "longitude"} \cup HourlyFields
      [] variant = "DailyForecast" -> {"latitude", "longitude"} \cup DailyFields
      [] variant = "WeatherAlerts" ->
           {"latitude", "longitude", "alert_sender_name", "alert_event_type",
            "alert_start_time", "alert_end_time", "alert_description", "alert_tags"}
      [] variant = "HistoricalWeather" ->
           {"latitude", "longitude", "observation_time", "temperature_temp",
            "apparent_temperature_temp", "pressure_hpa", "humidity_pct",
            "dew_point_temp", "cloud_cover_pct", "visibility_m", "wind_speed_m_s",
            "wind_direction_deg", "weather_condition", "weather_description",
            "weather_icon_code"}
      [] variant = "DailySummary" ->
           {"latitude", "longitude", "timezone_offset", "summary_date",
            "unit_system", "temperature_min_temp", "temperature_max_temp",
            "temperature_morning_temp", "temperature_afternoon_temp",
            "temperature_evening_temp", "temperature_night_temp",
            "cloud_cover_afternoon_pct", "humidity_afternoon_pct",
            "pressure_afternoon_hpa", "precipitation_total_mm",
            "wind_max_speed_m_s", "wind_max_direction_deg"}
      [] variant = "WeatherOverview" ->
           {"latitude", "longitude", "timezone_offset", "overview_date",
            "unit_system", "weather_overview"}
      [] OTHER -> {}

----------------------------------------------------------------------------
(* Properties of the scan lifecycle *)

\* the stored query parameters
Params(self) ==
    <<self.latitude, self.longitude, self.units, self.lang, self.dt, self.date,
      self.timezone_offset>>

IsIdle(self) ==
    /\ self.endpoint_type = None
    /\ self.data = DataNone
    /\ self.current_row = 0

Loaded == inst.data # DataNone
WriteOps == {"begin_modify", "insert", "update", "delete", "end_modify"}

\* the messages begin_scan fails with before fetch_source_data builds a request
PreRequestErrors ==
    {"'object' option is required",
     "unsupported endpoint object",
     "WHERE clause must include 'latitude' between -90 and 90",
     "WHERE clause must include 'longitude' between -180 and 180",
     "latitude must be between -90 and 90, got",
     "longitude must be between -180 and 180, got",
     "WHERE clause must include 'observation_time' for historical_weather",
     "WHERE clause must include 'summary_date' (YYYY-MM-DD format) for daily_summary"}

FailedBeforeRequest ==
    lastResult.kind = "err" /\ lastResult.msg[1] \in PreRequestErrors

\* C1: a begin_scan that starts in Idle and fails leaves the whole instance
\* (endpoint_type, query parameters, data, current_row) as it was before the call.
C1_FailedBeginScanLeavesIdle ==
    [][(lastOp' = "begin_scan" /\ lastResult'.kind = "err" /\ IsIdle(inst))
          => inst' = inst]_vars

\* C2: on a loaded rowset of n rows, with columns of the table, every iter_scan
\* below the end emits one row holding the cells of the requested columns in
\* order and moves the cursor by one; at the end it signals end-of-data, emits
\* nothing and changes nothing; the rows emitted from a rowset are as many as the
\* cursor says and never more than the rowset has.
ColumnsKnown(data, columns) ==
    \A i \in 1..Len(columns) : columns[i] \in TableColumns(data.variant)

C2_IterStep ==
    (lastOp' = "iter_scan" /\ ColumnsKnown(inst.data, lastCtx'.columns)) =>
        IF inst.current_row < row_count(inst.data)
        THEN /\ lastResult'.kind = "row"
             /\ Len(lastResult'.row) = Len(lastCtx'.columns)
             /\ \A i \in 1..Len(lastCtx'.columns) :
                    lastResult'.row[i] = get_cell_value(inst, lastCtx'.columns[i]).v
             /\ inst' = [inst EXCEPT !.current_row = inst.current_row + 1]
             /\ emitted' = emitted + 1
        ELSE /\ lastResult'.kind = "eod"
             /\ lastResult'.row = <<>>
             /\ inst' = inst
             /\ emitted' = emitted

C2_ScanEmitsEachRowOnce ==
    /\ [](Loaded => emitted = inst.current_row /\ emitted <= row_count(inst.data))
    /\ [][C2_IterStep]_vars

\* n rows were emitted from an n-row rowset and the next iter_scan signalled the end
C2_Witness ==
    /\ lastOp = "iter_scan"
    /\ lastResult.kind = "eod"
    /\ inst.data.variant = "HourlyForecast"
    /\ row_count(inst.data) = MaxRows
    /\ emitted = MaxRows

\* C3 (as stated): every begin_scan issues exactly one request, no other call any.
C3_ExactlyOneRequestPerBeginScan ==
    /\ lastOp = "begin_scan" => Len(issued) = 1
    /\ lastOp # "begin_scan" => Len(issued) = 0

\* C3 (amended): a begin_scan issues one request when the table option and the
\* predicates were accepted, whatever became of the request, and none when it
\* failed before that; no other call issues a request.
C3_RequestsOnlyFromAcceptedBeginScan ==
    /\ lastOp = "begin_scan" =>
           Len(issued) = (IF FailedBeforeRequest THEN 0 ELSE 1)
    /\ lastOp # "begin_scan" => Len(issued) = 0

\* a begin_scan whose request failed in transport: one request, no more
C3_Witness ==
    /\ lastOp = "begin_scan"
    /\ lastResult.kind = "err"
    /\ lastResult.msg[1] = "http error"
    /\ Len(issued) = 1

\* C4: end_scan returns success and leaves the engine Idle from any state, and an
\* end_scan that follows an end_scan changes nothing.
C4_EndScanStep ==
    lastOp' = "end_scan" =>
        /\ lastResult' = ResOk
        /\ IsIdle(inst')
        /\ lastOp = "end_scan" => inst' = inst

C4_EndScanIdlesAndIsIdempotent ==
    /\ [](/\ IsIdle(end_scan_call(inst))
          /\ end_scan_call(end_scan_call(inst)) = end_scan_call(inst))
    /\ [][C4_EndScanStep]_vars

\* end_scan has ended a scan that had begun
C4_Witness ==
    /\ lastOp = "end_scan"
    /\ IsIdle(inst)
    /\ inst.latitude = Lat5252

\* C5: after end_scan the rowset and the query parameters of the scan are back
\* at their initial values.
C5_EndScanDiscardsParams ==
    lastOp = "end_scan" =>
        /\ inst.data = DataNone
        /\ Params(inst) = Params(DefaultInstance)

\* C6: an iter_scan that directly follows an end_scan signals end-of-data and
\* emits no row.
C6_IterAfterEndStep ==
    (lastOp = "end_scan" /\ lastOp' = "iter_scan") =>
        /\ lastResult'.kind = "eod"
        /\ lastResult'.row = <<>>
        /\ emitted' = 0
        /\ inst' = inst

C6_IterAfterEndIsEndOfData == [][C6_IterAfterEndStep]_vars

\* iter_scan ran on the Idle engine an end_scan leaves after a scan
C6_Witness ==
    /\ lastOp = "iter_scan"
    /\ lastResult.kind = "eod"
    /\ IsIdle(inst)
    /\ inst.latitude = Lat5252

\* C7: every write-path call fails as unsupported, changes nothing of the
\* instance and issues no request.
UnsupportedMessages ==
    {"OpenWeather FDW does not support data modification",
     "OpenWeather FDW does not support INSERT",
     "OpenWeather FDW does not support UPDATE",
     "OpenWeather FDW does not support DELETE"}

C7_WriteStep ==
    lastOp' \in WriteOps =>
        /\ lastResult'.kind = "err"
        /\ lastResult'.msg[1] \in UnsupportedMessages
        /\ inst' = inst
        /\ emitted' = emitted
        /\ issued' = <<>>

C7_WritePathRejectedScanUntouched ==
    /\ [](Loaded => emitted = inst.current_row)
    /\ [][C7_WriteStep]_vars

\* a write attempt in the middle of a scan
C7_Witness ==
    /\ lastOp = "insert"
    /\ lastResult.kind = "err"
    /\ Loaded
    /\ 0 < inst.current_row
    /\ inst.current_row < row_count(inst.data)

\* C8: re_scan returns success, issues no request and leaves the instance as it
\* is; the cursor still counts the rows already emitted, so only the remaining
\* rows follow.
C8_ReScanStep ==
    lastOp' = "re_scan" =>
        /\ lastResult' = ResOk
        /\ issued' = <<>>
        /\ inst' = inst
        /\ emitted' = emitted

C8_ReScanIsNoOp ==
    /\ []((lastOp = "re_scan" /\ Loaded) => inst.current_row = emitted)
    /\ [][C8_ReScanStep]_vars

\* re_scan in the middle of a scan kept the cursor
C8_Witness ==
    /\ lastOp = "re_scan"
    /\ Loaded
    /\ 0 < inst.current_row
    /\ inst.current_row < row_count(inst.data)

----------------------------------------------------------------------------
(* FreshSpec: one scan per instance.  The host creates the instance (init),  *)
(* begins one scan on it, iterates and ends; the scan's table and predicates *)
(* range over all eight tables and over LocationQuals.                       *)

FreshNext ==
    \/ init(ServerOptions)
    \/ /\ lastOp = "init"
       /\ begin_scan(Contexts(TableOptions(TableNames), LocationQuals), ScanReplies)
    \/ iter_scan(ScanColumns)
    \/ end_scan
    \/ re_scan
    \/ begin_modify
    \/ insert
    \/ update
    \/ delete
    \/ end_modify

FreshSpec == Init /\ [][FreshNext]_vars

\* the call was a begin_scan on one of the eight tables
BeganScanOnTable ==
    /\ lastOp = "begin_scan"
    /\ IsSome(lastCtx.opts.object)
    /\ Unwrap(lastCtx.opts.object) \in TableNames

NumericCellTypes == {"F64", "I64", "I32", "Numeric"}

\* some equality predicate on the field carries a number
HasUsableEq(quals, field) ==
    \E i \in 1..Len(quals) :
        /\ quals[i].field = field
        /\ quals[i].operator = "="
        /\ quals[i].value.t \in NumericCellTypes

MissingLocationErrors ==
    {"WHERE clause must include 'latitude' between -90 and 90",
     "WHERE clause must include 'longitude' between -180 and 180"}

RangeErrors ==
    {"latitude must be between -90 and 90, got",
     "longitude must be between -180 and 180, got"}

\* C9: on each of the eight tables, a begin_scan whose predicates have no usable
\* equality predicate on latitude, or none on longitude, fails with the
\* missing-parameter message and has issued no request.
C9_MissingLocationFailsBeforeRequest ==
    (/\ BeganScanOnTable
     /\ \/ ~HasUsableEq(lastCtx.quals, "latitude")
        \/ ~HasUsableEq(lastCtx.quals, "longitude"))
    => /\ lastResult.kind = "err"
       /\ lastResult.msg[1] \in MissingLocationErrors
       /\ issued = <<>>

\* a historical_weather scan whose only latitude predicate is not an equality
C9_Witness ==
    /\ lastOp = "begin_scan"
    /\ lastCtx.opts.object = Some("historical_weather")
    /\ \E i \in 1..Len(lastCtx.quals) : lastCtx.quals[i].field = "latitude"
    /\ ~HasUsableEq(lastCtx.quals, "latitude")
    /\ lastResult.kind = "err"
    /\ issued = <<>>

\* the number the predicates give for a coordinate
Given(field) == Unwrap(extract_qual_numeric(lastCtx.quals, field))

InBounds(field) ==
    IF field = "latitude"
    THEN -90 * F64Scale <= Given(field) /\ Given(field) <= 90 * F64Scale
    ELSE -180 * F64Scale <= Given(field) /\ Given(field) <= 180 * F64Scale

\* C10: when both coordinates are given, begin_scan passes the location check
\* exactly when -90 <= latitude <= 90 and -180 <= longitude <= 180, end points
\* included: in range the coordinates are stored and the request carries them,
\* out of range the call fails with the range message and issues no request.
C10_InclusiveLocationBounds ==
    (/\ BeganScanOnTable
     /\ HasUsableEq(lastCtx.quals, "latitude")
     /\ HasUsableEq(lastCtx.quals, "longitude"))
    => IF InBounds("latitude") /\ InBounds("longitude")
       THEN /\ inst.latitude = Given("latitude")
            /\ inst.longitude = Given("longitude")
            /\ Len(issued) = 1
            /\ issued[1].query[1] = QP("lat", Given("latitude"))
            /\ issued[1].query[2] = QP("lon", Given("longitude"))
       ELSE /\ lastResult.kind = "err"
            /\ lastResult.msg[1] \in RangeErrors
            /\ issued = <<>>

\* latitude = 90 and longitude = 180 were accepted and the scan succeeded
C10_Witness ==
    /\ lastOp = "begin_scan"
    /\ lastResult.kind = "ok"
    /\ inst.latitude = 90 * F64Scale
    /\ inst.longitude = 180 * F64Scale

----------------------------------------------------------------------------
(* DecodeSpec: one scan per instance, on every table, over replies whose     *)
(* documents are whole, lack a key, or carry an element that lacks one.      *)

\* a JSON object without / with one key, and an array with one element replaced
Without(obj, key) == JObj([k \in DOMAIN obj.v \ {key} |-> obj.v[k]])
With(obj, key, val) ==
    JObj([k \in DOMAIN obj.v \cup {key} |-> IF k = key THEN val ELSE obj.v[k]])
WithElem(doc, arr, j, elem) ==
    With(doc, arr, JArr([doc.v[arr].v EXCEPT ![j] = elem]))

\* the keys the decoders read with ok_or(...)?, one or more per array
RequiredKeys(arr) ==
    CASE arr = "minutely" -> {"dt"}
      [] arr = "hourly" -> {"dt", "pop", "weather"}
      [] arr = "daily" -> {"dt", "temp", "weather"}
      [] arr = "data" -> {"dt", "wind_deg", "weather"}

\* documents in which element j of one array lacks a required key
ElementLacksKey(docs, arrs) ==
    {WithElem(docs[n], arr, j, Without(docs[n].v[arr].v[j], key)) :
        <<n, arr, j, key>> \in
            {q \in (1..MaxRows) \X arrs \X (1..MaxRows) \X {"dt", "pop", "temp", "wind_deg", "weather"} :
                q[3] <= q[1] /\ q[4] \in RequiredKeys(q[2])}}

\* the `weather` arrays of an element: empty, element 0 without sub-fields,
\* and two elements
EmptyWeather == JArr(<<>>)
BareWeather == JArr(<<JObj(<<>>)>>)
TwoWeathers ==
    JArr(<<JObj([main |-> JStr("Snow"), description |-> JStr("light snow"),
                 icon |-> JStr("13d")]),
           JObj([main |-> JStr("Mist"), description |-> JStr("mist"),
                 icon |-> JStr("50d")])>>)
WeatherCases == {EmptyWeather, BareWeather, TwoWeathers}

\* documents in which the weather array of `current` or of the first element
\* of an array is one of WeatherCases, or `current` lacks the key
WeatherDocs ==
    {With(OneCallDoc(1), "current", With(CurrentObj, "weather", w)) : w \in WeatherCases}
    \cup {With(OneCallDoc(1), "current", Without(CurrentObj, "weather"))}
    \cup {WithElem(OneCallDoc(1), arr, 1, With(OneCallDoc(1).v[arr].v[1], "weather", w)) :
            arr \in {"hourly", "daily"}, w \in WeatherCases}
    \cup {WithElem(TimemachineDoc(1), "data", 1, With(HistoricalObj(1), "weather", w)) :
            w \in WeatherCases}

DecodeDocs ==
    {OneCallDoc(n) : n \in 0..MaxRows}
    \cup {TimemachineDoc(n) : n \in 0..MaxRows}
    \cup {DaySummaryDoc, OverviewDoc}
    \cup {Without(OneCallDoc(n), "alerts") : n \in 0..1}
    \cup {Without(TimemachineDoc(1), "data")}
    \cup {With(OneCallDoc(1), "current", With(CurrentObj, "wind_gust", JFloat(80000)))}
    \cup ElementLacksKey([n \in 1..MaxRows |-> OneCallDoc(n)],
                         {"minutely", "hourly", "daily"})
    \cup ElementLacksKey([n \in 1..MaxRows |-> TimemachineDoc(n)], {"data"})
    \cup WeatherDocs

DecodeReplies == HttpFailures \cup {Replied(200, TRUE, doc) : doc \in DecodeDocs}

DecodeQuals == {GoodLocation \o Extras}

DecodeNext ==
    \/ init(ServerOptions)
    \/ /\ lastOp = "init"
       /\ begin_scan(Contexts(TableOptions(TableNames), DecodeQuals), DecodeReplies)
    \/ iter_scan(ScanColumns)
    \/ end_scan
    \/ re_scan
    \/ begin_modify
    \/ insert
    \/ update
    \/ delete
    \/ end_modify

DecodeSpec == Init /\ [][DecodeNext]_vars

\* the reply the begin_scan just made got, and its document
Reply == Unwrap(lastCtx.reply)
ReplyDoc == Reply.body.json

\* the last call was a begin_scan on `table` whose request was answered with a
\* 200 and a body that parses as JSON
Decoding(table) ==
    /\ lastOp = "begin_scan"
    /\ lastCtx.opts.object = Some(table)
    /\ IsSome(lastCtx.reply)
    /\ Reply.sent
    /\ Reply.status_code = 200
    /\ Reply.body.valid

SourceArray(table) ==
    CASE table = "minutely_forecast" -> "minutely"
      [] table = "hourly_forecast" -> "hourly"
      [] table = "daily_forecast" -> "daily"
      [] table = "weather_alerts" -> "alerts"
      [] table = "historical_weather" -> "data"

HasArray(doc, arr) == arr \in DOMAIN doc.v /\ doc.v[arr].t = "arr"
Elements(doc, arr) == doc.v[arr].v

MultiRowTables == {"minutely_forecast", "hourly_forecast", "daily_forecast"}

\* some element of the table's source array lacks a required key
SomeElementLacksKey(table) ==
    /\ HasArray(ReplyDoc, SourceArray(table))
    /\ \E j \in 1..Len(Elements(ReplyDoc, SourceArray(table))) :
           \E key \in RequiredKeys(SourceArray(table)) :
               key \notin DOMAIN Elements(ReplyDoc, SourceArray(table))[j].v

\* C11: for minutely, hourly and daily, a source array with an element that
\* lacks a required key makes begin_scan fail and leaves no rowset.
C11_ElementLackingFieldAbortsDecode ==
    \A table \in MultiRowTables :
        (Decoding(table) /\ SomeElementLacksKey(table))
            => (lastResult.kind = "err" /\ inst.data = DataNone)

\* the length the claim gives the rowset decoded for `table`
ExpectedRows(table) ==
    IF table \in MultiRowTables
    THEN Len(Elements(ReplyDoc, SourceArray(table)))
    ELSE IF table = "weather_alerts"
    THEN (IF HasArray(ReplyDoc, "alerts") THEN Len(Elements(ReplyDoc, "alerts")) ELSE 0)
    ELSE 1

\* C12: after a successful decode row_count() is the length of the source array
\* for minutely, hourly, daily and alerts (0 without an alerts array) and 1 for
\* the four single-row tables.
C12_RowCountIsSourceLength ==
    \A table \in TableNames :
        (Decoding(table) /\ lastResult.kind = "ok")
            => row_count(inst.data) = ExpectedRows(table)

\* C13: the parallel sequences of a stored minutely, hourly or daily rowset all
\* have the length row_count() returns, and at every row index below it every
\* column of the table projects to a cell without error.
SequencesOf(data) ==
    CASE data.variant = "MinutelyForecast" -> {"forecast_time", "precipitation_mm"}
      [] data.variant = "HourlyForecast" -> HourlyFields
      [] data.variant = "DailyForecast" -> DailyFields
      [] OTHER -> {}

C13_ParallelSequencesSameLength ==
    /\ \A f \in SequencesOf(inst.data) : Len(inst.data[f]) = row_count(inst.data)
    /\ \A i \in 0..(row_count(inst.data) - 1) :
           \A col \in TableColumns(inst.data.variant) :
               get_cell_value([inst EXCEPT !.current_row = i], col).ok

\* a daily rowset of MaxRows rows is stored
C13_Witness ==
    /\ inst.data.variant = "DailyForecast"
    /\ Cardinality(SequencesOf(inst.data)) = 30
    /\ row_count(inst.data) = MaxRows
    /\ MaxRows > 1

\* ---------------------------------------------------------------------------
\* weather_alerts without an 'alerts' key

NoAlertsKey == "alerts" \notin DOMAIN ReplyDoc.v

C14_BeginState ==
    (Decoding("weather_alerts") /\ NoAlertsKey) =>
        /\ lastResult.kind = "ok"
        /\ inst.data.variant = "WeatherAlerts"
        /\ inst.data.alerts = <<>>
        /\ row_count(inst.data) = 0
        /\ inst.current_row = 0
        /\ inst.data =
               parse_weather_alerts(inst, With(ReplyDoc, "alerts", JArr(<<>>))).v.data

C14_IterStep ==
    (Decoding("weather_alerts") /\ NoAlertsKey /\ lastOp' = "iter_scan") =>
        /\ lastResult'.kind = "eod"
        /\ lastResult'.row = <<>>
        /\ emitted' = 0
        /\ inst' = inst

\* C14: a weather_alerts reply without an 'alerts' key makes begin_scan succeed
\* with the rowset an empty 'alerts' array gives (zero rows), and the iter_scan
\* that follows returns end-of-data without a row.
C14_AbsentAlertsIsEmptyRowset == [](C14_BeginState) /\ [][C14_IterStep]_vars

\* begin_scan on weather_alerts succeeded on a reply without an 'alerts' key
C14_Witness ==
    /\ Decoding("weather_alerts")
    /\ NoAlertsKey
    /\ lastResult.kind = "ok"
    /\ row_count(inst.data) = 0

\* ---------------------------------------------------------------------------
\* historical_weather reads element 0 of 'data'

HistoricalKeys ==
    {"dt", "temp", "feels_like", "pressure", "humidity", "dew_point", "clouds",
     "visibility", "wind_speed", "wind_deg"}

\* the element has every required field and a non-empty weather array
HistoricalComplete(e) ==
    /\ HistoricalKeys \subseteq DOMAIN e.v
    /\ HasArray(e, "weather")
    /\ Len(e.v.weather.v) > 0

\* the row holds the values of element e
RowOfElement(data, e) ==
    /\ data.variant = "HistoricalWeather"
    /\ data.observation_time = e.v.dt.v
    /\ data.temperature_temp = e.v.temp.v
    /\ data.apparent_temperature_temp = e.v.feels_like.v
    /\ data.pressure_hpa = e.v.pressure.v
    /\ data.humidity_pct = e.v.humidity.v
    /\ data.dew_point_temp = e.v.dew_point.v
    /\ data.cloud_cover_pct = e.v.clouds.v
    /\ data.visibility_m = e.v.visibility.v
    /\ data.wind_speed_m_s = e.v.wind_speed.v
    /\ data.wind_direction_deg = e.v.wind_deg.v
    /\ row_count(data) = 1

\* C15: the historical decode fails when 'data' is missing or empty ("data
\* array is empty" for the empty array); otherwise its outcome is that of
\* element 0 alone, whatever the later elements contain.
C15_HistoricalReadsFirstElement ==
    Decoding("historical_weather") =>
        IF ~HasArray(ReplyDoc, "data")
        THEN /\ lastResult.kind = "err"
             /\ lastResult.msg[1] = "missing 'data' array in timemachine response"
             /\ inst.data = DataNone
        ELSE IF Elements(ReplyDoc, "data") = <<>>
        THEN /\ lastResult.kind = "err"
             /\ lastResult.msg[1] = "data array is empty"
             /\ inst.data = DataNone
        ELSE LET e0 == Elements(ReplyDoc, "data")[1]
             IN  IF HistoricalComplete(e0)
                 THEN /\ lastResult.kind = "ok"
                      /\ RowOfElement(inst.data, e0)
                 ELSE /\ lastResult.kind = "err"
                      /\ inst.data = DataNone

\* the decode succeeded on a 'data' array whose second element differs from
\* (or lacks a field of) the first
C15_Witness ==
    /\ Decoding("historical_weather")
    /\ HasArray(ReplyDoc, "data")
    /\ Len(Elements(ReplyDoc, "data")) > 1
    /\ Elements(ReplyDoc, "data")[2] # Elements(ReplyDoc, "data")[1]
    /\ lastResult.kind = "ok"
    /\ inst.data.observation_time = Elements(ReplyDoc, "data")[1].v.dt.v

\* ---------------------------------------------------------------------------
\* optional quantities

\* the number under `key` of a JSON object, when there is one
OptionalNumber(e, key) ==
    IF key \in DOMAIN e.v /\ e.v[key].t \in {"int", "float"}
    THEN Some(IF e.v[key].t = "int" THEN IntAsF64(e.v[key].v) ELSE e.v[key].v)
    ELSE None

\* the number under e[key]["1h"], when e[key] is an object that has one
Optional1h(e, key) ==
    IF key \in DOMAIN e.v /\ e.v[key].t = "obj"
    THEN OptionalNumber(e.v[key], "1h")
    ELSE None

\* the cell of an optional quantity: Null when absent, its value otherwise
OptionalCell(o) == Ok(IF IsSome(o) THEN Some(Numeric(Unwrap(o))) ELSE None)

CellAt(i, col) == get_cell_value([inst EXCEPT !.current_row = i], col)

C16_Hourly ==
    (Decoding("hourly_forecast") /\ lastResult.kind = "ok") =>
        \A j \in 1..Len(Elements(ReplyDoc, "hourly")) :
            LET e == Elements(ReplyDoc, "hourly")[j]
            IN  /\ inst.data.rain_volume_1h_mm[j] = Optional1h(e, "rain")
                /\ inst.data.snow_volume_1h_mm[j] = Optional1h(e, "snow")
                /\ inst.data.wind_gust_speed_m_s[j] = OptionalNumber(e, "wind_gust")
                /\ CellAt(j - 1, "rain_volume_1h_mm") = OptionalCell(Optional1h(e, "rain"))
                /\ CellAt(j - 1, "snow_volume_1h_mm") = OptionalCell(Optional1h(e, "snow"))
                /\ CellAt(j - 1, "wind_gust_speed_m_s")
                       = OptionalCell(OptionalNumber(e, "wind_gust"))

C16_Daily ==
    (Decoding("daily_forecast") /\ lastResult.kind = "ok") =>
        \A j \in 1..Len(Elements(ReplyDoc, "daily")) :
            LET e == Elements(ReplyDoc, "daily")[j]
            IN  /\ inst.data.wind_gust_speed_m_s[j] = OptionalNumber(e, "wind_gust")
                /\ CellAt(j - 1, "wind_gust_speed_m_s")
                       = OptionalCell(OptionalNumber(e, "wind_gust"))

C16_Current ==
    (Decoding("current_weather") /\ lastResult.kind = "ok") =>
        /\ inst.data.wind_gust_speed_m_s = OptionalNumber(ReplyDoc.v.current, "wind_gust")
        /\ CellAt(0, "wind_gust_speed_m_s")
               = OptionalCell(OptionalNumber(ReplyDoc.v.current, "wind_gust"))

\* an absent optional quantity never fails the decode
C16_NeverAnError ==
    \A table \in {"hourly_forecast", "daily_forecast"} :
        (/\ Decoding(table)
         /\ HasArray(ReplyDoc, SourceArray(table))
         /\ ~SomeElementLacksKey(table)
         /\ \A j \in 1..Len(Elements(ReplyDoc, SourceArray(table))) :
                LET w == Elements(ReplyDoc, SourceArray(table))[j].v.weather
                IN  w.t = "arr" /\ w.v # <<>>)
        => lastResult.kind = "ok"

\* C16: hourly rain and snow are Null when absent or without a '1h' entry and
\* the '1h' value otherwise; an absent wind_gust (hourly, daily, current) is
\* Null; none of them fails the decode or reads as zero, in the rowset and in
\* the projected cell alike.
C16_OptionalQuantitiesAreNull ==
    C16_Hourly /\ C16_Daily /\ C16_Current /\ C16_NeverAnError

\* an hourly rowset holding an element with rain '1h' and a snow object
\* without '1h', next to an element with neither rain, snow nor gust
C16_Witness ==
    /\ Decoding("hourly_forecast")
    /\ lastResult.kind = "ok"
    /\ \E j, k \in 1..Len(Elements(ReplyDoc, "hourly")) :
           LET e == Elements(ReplyDoc, "hourly")[j]
               f == Elements(ReplyDoc, "hourly")[k]
           IN  /\ IsSome(Optional1h(e, "rain"))
               /\ "snow" \in DOMAIN e.v
               /\ IsNone(Optional1h(e, "snow"))
               /\ {"rain", "snow", "wind_gust"} \cap DOMAIN f.v = {}
               /\ CellAt(k - 1, "rain_volume_1h_mm") = Ok(None)
               /\ CellAt(j - 1, "snow_volume_1h_mm") = Ok(None)

\* ---------------------------------------------------------------------------
\* row-to-element correspondence of hourly_forecast

C17_Loaded ==
    (Decoding("hourly_forecast") /\ lastResult.kind = "ok") =>
        /\ row_count(inst.data) = Len(Elements(ReplyDoc, "hourly"))
        /\ \A i \in 0..(Len(Elements(ReplyDoc, "hourly")) - 1) :
               LET temp == Unwrap(OptionalNumber(Elements(ReplyDoc, "hourly")[i + 1], "temp"))
               IN  /\ inst.data.temperature_temp[i + 1] = temp
                   /\ CellAt(i, "temperature_temp") = Ok(Some(Numeric(temp)))

C17_IterStep ==
    /\ lastOp' \notin {"init", "begin_scan", "end_scan"} => inst'.data = inst.data
    /\ (/\ lastOp' = "iter_scan"
        /\ inst.data.variant = "HourlyForecast"
        /\ lastResult'.kind = "row")
       => /\ inst.current_row = emitted
          /\ \A k \in 1..Len(lastCtx'.columns) :
                 lastCtx'.columns[k] = "temperature_temp" =>
                     lastResult'.row[k]
                         = Some(Numeric(inst.data.temperature_temp[emitted + 1]))

\* C17: after an hourly decode of n elements the rowset has n rows, the stored
\* and projected temperature_temp at cursor i is the 'temp' of source element
\* i, and the row iter_scan emits after i rows carries the value stored at i;
\* the rowset does not change while the scan runs.
C17_HourlyRowIsSourceElement == [](C17_Loaded) /\ [][C17_IterStep]_vars

\* the second row of an hourly rowset was emitted with its temperature, which
\* differs from the first row's
C17_Witness ==
    /\ lastOp = "iter_scan"
    /\ lastResult.kind = "row"
    /\ inst.data.variant = "HourlyForecast"
    /\ emitted = 2
    /\ Len(lastCtx.columns) >= 2
    /\ lastCtx.columns[2] = "temperature_temp"
    /\ lastResult.row[2] = Some(Numeric(inst.data.temperature_temp[2]))
    /\ inst.data.temperature_temp[2] # inst.data.temperature_temp[1]

\* ---------------------------------------------------------------------------
(* Timestamps: replies whose epoch seconds run over the whole integer range,  *)
(* decoded and projected by a build with and by one without overflow checks. *)

\* epoch seconds in a reply: small ones, the last ones whose product with
\* 1_000_000 fits, the first ones whose product does not, and the extremes
TimeValues ==
    {0, 1700,
     I64_MAX \div MICROS, I64_MAX \div MICROS + 1,
     -(I64_MAX \div MICROS), -(I64_MAX \div MICROS) - 1,
     I64_MAX, -I64_MAX - 1}

\* the timestamp keys of an element of each array, and the rowset field each
\* is stored in
TimestampKeys(arr) ==
    CASE arr \in {"minutely", "hourly"} -> {<<"dt", "forecast_time">>}
      [] arr = "daily" -> {<<"dt", "forecast_date">>, <<"sunrise", "sunrise_time">>,
                           <<"sunset", "sunset_time">>,
                           <<"moonrise", "moonrise_time">>,
                           <<"moonset", "moonset_time">>}
      [] arr = "alerts" -> {<<"start", "alert_start_time">>,
                            <<"end", "alert_end_time">>}
      [] arr = "data" -> {<<"dt", "observation_time">>}

TimeDocs ==
    {With(OneCallDoc(1), "current", With(CurrentObj, "dt", JInt(t))) : t \in TimeValues}
    \cup {WithElem(TimemachineDoc(1), "data", 1, With(HistoricalObj(1), "dt", JInt(t))) :
             t \in TimeValues}
    \cup {WithElem(OneCallDoc(MaxRows), q[1], q[2],
                   With(OneCallDoc(MaxRows).v[q[1]].v[q[2]], q[3], JInt(q[4]))) :
             q \in {r \in {"minutely", "hourly", "daily", "alerts"} \X (1..MaxRows)
                          \X {"dt", "sunrise", "sunset", "moonrise", "moonset",
                              "start", "end"} \X TimeValues :
                        \E kf \in TimestampKeys(r[1]) : kf[1] = r[3]}}

TimeReplies == {Replied(200, TRUE, doc) : doc \in TimeDocs}

TimeTables ==
    {"current_weather", "minutely_forecast", "hourly_forecast", "daily_forecast",
     "weather_alerts", "historical_weather"}

TimeColumns ==
    ScanColumns \cup {<<"forecast_date", "sunrise_time", "sunset_time",
                        "moonrise_time", "moonset_time">>,
                      <<"alert_end_time">>, <<"latitude", "forecast_time">>}

TimeInit ==
    /\ inst \in {guest_init(o).self : o \in ServerOptions}
    /\ lastOp = "init"
    /\ lastCtx = NoCtx
    /\ lastResult = ResOk
    /\ issued = <<>>
    /\ emitted = 0
    /\ overflow_checks \in BOOLEAN

TimeNext ==
    \/ init(ServerOptions)
    \/ /\ lastOp = "init"
       /\ begin_scan(Contexts(TableOptions(TimeTables), DecodeQuals), TimeReplies)
    \/ iter_scan(TimeColumns)
    \/ end_scan
    \/ re_scan
    \/ begin_modify
    \/ insert
    \/ update
    \/ delete
    \/ end_modify

TimeSpec == TimeInit /\ [][TimeNext]_vars

TimestampColumns(variant) ==
    CASE variant \in {"CurrentWeather", "HistoricalWeather"} -> {"observation_time"}
      [] variant \in {"MinutelyForecast", "HourlyForecast"} -> {"forecast_time"}
      [] variant = "DailyForecast" ->
             {"forecast_date", "sunrise_time", "sunset_time", "moonrise_time",
              "moonset_time"}
      [] variant = "WeatherAlerts" -> {"alert_start_time", "alert_end_time"}
      [] OTHER -> {}

\* the cell is the timestamp of s seconds: s * 1_000_000 microseconds
IsMicrosOf(c, s) ==
    /\ c.ok
    /\ IsSome(c.v)
    /\ c.v[1].t = "Timestamptz"
    /\ c.v[1].v % MICROS = 0
    /\ c.v[1].v \div MICROS = s

\* the rowset keeps the seconds of the reply
C18_Stored ==
    /\ (Decoding("current_weather") /\ lastResult.kind = "ok")
           => inst.data.observation_time = ReplyDoc.v.current.v.dt.v
    /\ (Decoding("historical_weather") /\ lastResult.kind = "ok")
           => inst.data.observation_time = Elements(ReplyDoc, "data")[1].v.dt.v
    /\ \A table \in {"hourly_forecast", "daily_forecast"} :
           (Decoding(table) /\ lastResult.kind = "ok") =>
               \A j \in 1..Len(Elements(ReplyDoc, SourceArray(table))) :
                   \A kf \in TimestampKeys(SourceArray(table)) :
                       inst.data[kf[2]][j]
                           = Elements(ReplyDoc, SourceArray(table))[j].v[kf[1]].v
    /\ (Decoding("weather_alerts") /\ lastResult.kind = "ok")
           => \A j \in 1..Len(inst.data.alerts) :
                  \A kf \in TimestampKeys("alerts") :
                      inst.data.alerts[j][kf[2]] = Elements(ReplyDoc, "alerts")[j].v[kf[1]].v

\* C18: every timestamp column of every row projects the stored seconds s as
\* the timestamp s * 1_000_000, whatever integer s the decoder stored, and the
\* rowset keeps the seconds of the reply.
C18_TimestampIsSecondsTimesMillion ==
    /\ C18_Stored
    /\ \A col \in TimestampColumns(inst.data.variant) :
           \A i \in 0..(row_count(inst.data) - 1) :
               IsMicrosOf(CellAt(i, col),
                          Unwrap(TimestampSeconds(inst.data, i, col)))

\* ---------------------------------------------------------------------------
\* the weather condition comes from element 0 of the 'weather' array

\* the text under `key` of a JSON object, or the default
TextOr(w, key, default) ==
    IF key \in DOMAIN w.v /\ w.v[key].t = "str" THEN w.v[key].v ELSE default

NoWeather(e) == ~HasArray(e, "weather") \/ Elements(e, "weather") = <<>>

\* the three stored texts are those of element 0 of e's weather array
WeatherIsFirst(e, condition, description, icon) ==
    LET w == Elements(e, "weather")[1]
    IN  /\ condition = TextOr(w, "main", "Unknown")
        /\ description = TextOr(w, "description", "unknown")
        /\ icon = TextOr(w, "icon", "01d")

C19_Single(table, e) ==
    IF NoWeather(e)
    THEN lastResult.kind = "err" /\ inst.data = DataNone
    ELSE lastResult.kind = "ok" =>
             WeatherIsFirst(e, inst.data.weather_condition,
                            inst.data.weather_description,
                            inst.data.weather_icon_code)

C19_Array(table) ==
    (Decoding(table) /\ HasArray(ReplyDoc, SourceArray(table))) =>
        LET es == Elements(ReplyDoc, SourceArray(table))
        IN  IF \E j \in 1..Len(es) : NoWeather(es[j])
            THEN lastResult.kind = "err" /\ inst.data = DataNone
            ELSE lastResult.kind = "ok" =>
                     \A j \in 1..Len(es) :
                         WeatherIsFirst(es[j], inst.data.weather_condition[j],
                                        inst.data.weather_description[j],
                                        inst.data.weather_icon_code[j])

\* C19: the current, hourly, daily and historical decoders fail on a missing
\* or empty 'weather' array and otherwise store main, description and icon of
\* its element 0, with "Unknown", "unknown" and "01d" for a missing sub-field.
C19_WeatherFromFirstElement ==
    /\ (Decoding("current_weather") /\ "current" \in DOMAIN ReplyDoc.v)
           => C19_Single("current_weather", ReplyDoc.v.current)
    /\ (/\ Decoding("historical_weather")
        /\ HasArray(ReplyDoc, "data")
        /\ Elements(ReplyDoc, "data") # <<>>)
           => C19_Single("historical_weather", Elements(ReplyDoc, "data")[1])
    /\ C19_Array("hourly_forecast")
    /\ C19_Array("daily_forecast")

\* a current_weather decode that stored the three defaults for a weather
\* element without sub-fields
C19_Witness ==
    /\ Decoding("current_weather")
    /\ lastResult.kind = "ok"
    /\ ReplyDoc.v.current.v.weather = BareWeather
    /\ inst.data.weather_condition = "Unknown"
    /\ inst.data.weather_description = "unknown"
    /\ inst.data.weather_icon_code = "01d"

\* ---------------------------------------------------------------------------
(* Requests: scans of all eight tables on one instance, one after another,   *)
(* with and without the predicates that become dt, date and tz.              *)

TimezoneQual == Qual("timezone_offset", "=", "String", "+0100")
OverviewDateQual == Qual("overview_date", "=", "String", "2024-02-01")

RequestQuals ==
    { GoodLocation,
      GoodLocation \o <<ObservationQual>>,
      GoodLocation \o <<SummaryDateQual>>,
      GoodLocation \o <<SummaryDateQual, TimezoneQual>>,
      GoodLocation \o <<OverviewDateQual>>,
      GoodLocation \o <<SummaryDateQual,
                        Qual("timezone_offset", "<", "String", "+0100"),
                        Qual("overview_date", "=", "Bool", TRUE)>>,
      GoodLocation \o <<Qual("units", "=", "String", "imperial"),
                        Qual("lang", "=", "String", "de"),
                        ObservationQual, SummaryDateQual, TimezoneQual,
                        OverviewDateQual>> }

RequestReplies == {[sent |-> FALSE], Replied(200, TRUE, OverviewDoc)}

RequestNext ==
    \/ init(ServerOptions)
    \/ begin_scan(Contexts(TableOptions(TableNames), RequestQuals), RequestReplies)
    \/ iter_scan({<<"latitude", "longitude">>})
    \/ end_scan
    \/ re_scan
    \/ begin_modify
    \/ insert
    \/ update
    \/ delete
    \/ end_modify

RequestSpec == Init /\ [][RequestNext]_vars

\* the request of the last begin_scan
Request == issued[1]
QueryKeys == {Request.query[i].k : i \in 1..Len(Request.query)}
QueryValue(key) ==
    Request.query[Min({i \in 1..Len(Request.query) : Request.query[i].k = key})].v

\* the first equality predicate on the field carries a text: its value
TextGiven(field) ==
    LET eqs == {i \in 1..Len(lastCtx.quals) :
                   lastCtx.quals[i].field = field /\ lastCtx.quals[i].operator = "="}
    IN  IF eqs # {} /\ lastCtx.quals[Min(eqs)].value.t = "String"
        THEN Some(lastCtx.quals[Min(eqs)].value.s)
        ELSE None

Named(field) == \E i \in 1..Len(lastCtx.quals) : lastCtx.quals[i].field = field

OneCallTables ==
    {"current_weather", "minutely_forecast", "hourly_forecast", "daily_forecast",
     "weather_alerts"}

PathOf(table) ==
    CASE table \in OneCallTables -> "/onecall"
      [] table = "historical_weather" -> "/onecall/timemachine"
      [] table = "daily_summary" -> "/onecall/day_summary"
      [] table = "weather_overview" -> "/onecall/overview"

\* C20: the request of a begin_scan is a GET without body to base_url +
\* api_path with lat, lon, appid, units and lang for every table; dt exactly
\* for historical_weather; date always for daily_summary and tz only with a
\* timezone_offset predicate; date for weather_overview only with an
\* overview_date predicate; no dt, date or tz for the five /onecall tables.
C20_RequestShape ==
    (lastOp = "begin_scan" /\ issued # <<>>) =>
        LET table == Unwrap(lastCtx.opts.object)
        IN  /\ Len(issued) = 1
            /\ Request.method = "GET"
            /\ Request.body = ""
            /\ Request.base = inst.base_url
            /\ Request.path = PathOf(table)
            /\ Len(Request.query) = Cardinality(QueryKeys)
            /\ {"lat", "lon", "appid", "units", "lang"} \subseteq QueryKeys
            /\ QueryKeys \subseteq {"lat", "lon", "appid", "units", "lang", "dt", "date", "tz"}
            /\ QueryValue("lat") = Lat5252
            /\ QueryValue("lon") = Lon13405
            /\ QueryValue("appid") = inst.api_key
            /\ QueryValue("units") = UnwrapOr(TextGiven("units"), "metric")
            /\ QueryValue("lang") = UnwrapOr(TextGiven("lang"), "en")
            /\ "dt" \in QueryKeys <=> table = "historical_weather"
            /\ "date" \in QueryKeys <=>
                   \/ table = "daily_summary"
                   \/ table = "weather_overview" /\ IsSome(TextGiven("overview_date"))
            /\ "tz" \in QueryKeys <=>
                   table = "daily_summary" /\ IsSome(TextGiven("timezone_offset"))
            /\ "tz" \in QueryKeys =>
                   /\ Named("timezone_offset")
                   /\ QueryValue("tz") = Unwrap(TextGiven("timezone_offset"))
            /\ (table = "weather_overview" /\ "date" \in QueryKeys) =>
                   /\ Named("overview_date")
                   /\ QueryValue("date") = Unwrap(TextGiven("overview_date"))
            /\ table = "daily_summary" =>
                   QueryValue("date") = Unwrap(TextGiven("summary_date"))
            /\ table = "historical_weather" =>
                   QueryValue("dt") = ObservationQual.value.v \div MICROS
            /\ table \in OneCallTables => QueryKeys \cap {"dt", "date", "tz"} = {}

\* a weather_overview scan without an overview_date predicate, on an instance
\* that still holds the date and tz of an earlier daily_summary scan, sent a
\* request without date and tz
C20_Witness ==
    /\ lastOp = "begin_scan"
    /\ issued # <<>>
    /\ lastCtx.opts.object = Some("weather_overview")
    /\ ~Named("overview_date")
    /\ IsSome(inst.timezone_offset)
    /\ QueryKeys \cap {"dt", "date", "tz"} = {}

\* ---------------------------------------------------------------------------
(* Parameters: one scan per instance, with predicate lists that hold other   *)
(* operators, repeated equality predicates and values of the wrong type, and *)
(* with table names that are none of the eight.                              *)

ParamQuals ==
    { GoodLocation,
      \* another operator before the equality, and a second equality after it
      <<Qual("latitude", "<", "F64", 10 * F64Scale), LatGood,
        Qual("latitude", "=", "F64", 10 * F64Scale),
        Qual("longitude", ">", "I64", 0), LonGood,
        Qual("longitude", "=", "I64", 20)>>,
      GoodLocation \o <<Qual("units", "<>", "String", "imperial"),
                        Qual("units", "=", "String", "standard"),
                        Qual("units", "=", "String", "imperial"),
                        Qual("lang", "~~", "String", "d%"),
                        Qual("lang", "=", "String", "de"),
                        Qual("lang", "=", "String", "fr")>>,
      GoodLocation \o <<Qual("observation_time", ">", "Timestamptz", 1600000000),
                        ObservationQual,
                        Qual("observation_time", "=", "Timestamptz", 1800000000),
                        Qual("summary_date", "<", "String", "2024-01-01"),
                        SummaryDateQual,
                        Qual("summary_date", "=", "String", "2024-03-01"),
                        TimezoneQual,
                        Qual("timezone_offset", "=", "String", "-0500"),
                        Qual("overview_date", ">=", "String", "2024-01-31"),
                        OverviewDateQual,
                        Qual("overview_date", "=", "String", "2024-02-02")>>,
      \* the first equality carries a value of the wrong type
      GoodLocation \o <<Qual("units", "=", "I64", 5),
                        Qual("units", "=", "String", "imperial"),
                        Qual("observation_time", "=", "String", "2024-01-01"),
                        ObservationQual,
                        Qual("summary_date", "=", "Timestamptz", 1700500000),
                        SummaryDateQual>>,
      <<Qual("latitude", "=", "String", "52.52"), LatGood, LonGood>>,
      \* only another operator on the table's own predicate
      GoodLocation \o <<Qual("observation_time", ">", "Timestamptz", 1600000000),
                        Qual("summary_date", "<", "String", "2024-01-01")>>,
      \* the predicate of the other table only
      GoodLocation \o <<ObservationQual>>,
      GoodLocation \o <<SummaryDateQual>>,
      \* a timestamp before the epoch that is no whole second
      GoodLocation \o <<Qual("observation_time", "=", "Timestamptz", -1500000)>> }

\* names that are none of the eight
BadNames ==
    {"Current_Weather", "CURRENT_WEATHER", "current_weather ", "weather", "",
     "current-weather", "onecall"}

ParamOptions ==
    {[object |-> Some(n)] : n \in TableNames \cup BadNames} \cup {[object |-> None]}

ParamNext ==
    \/ init(ServerOptions)
    \/ /\ lastOp = "init"
       /\ begin_scan(Contexts(ParamOptions, ParamQuals), RequestReplies)
    \/ iter_scan({<<"latitude", "longitude">>})
    \/ end_scan
    \/ re_scan
    \/ begin_modify
    \/ insert
    \/ update
    \/ delete
    \/ end_modify

ParamSpec == Init /\ [][ParamNext]_vars

\* the first equality predicate on the field, or 0
FirstEq(field) ==
    LET eqs == {i \in 1..Len(lastCtx.quals) :
                   lastCtx.quals[i].field = field /\ lastCtx.quals[i].operator = "="}
    IN  IF eqs = {} THEN 0
        ELSE CHOOSE i \in eqs : \A j \in eqs : i <= j

\* the number, the timestamp that predicate carries
NumberGiven(field) ==
    IF FirstEq(field) = 0 THEN None
    ELSE LET val == lastCtx.quals[FirstEq(field)].value
         IN  IF val.t \in {"F64", "Numeric"} THEN Some(val.v)
             ELSE IF val.t \in {"I64", "I32"} THEN Some(val.v * F64Scale)
             ELSE None

TimestampGiven(field) ==
    IF FirstEq(field) = 0 THEN None
    ELSE LET val == lastCtx.quals[FirstEq(field)].value
         IN  IF val.t = "Timestamptz" THEN Some(val.v) ELSE None

\* C21: extraction reads the first equality predicate on a field: predicates
\* with another operator are skipped without error, also when they come
\* first, and later equality predicates on the field are ignored.
C21_FirstEqualityDecides ==
    BeganScanOnTable =>
        /\ (IsNone(NumberGiven("latitude")) \/ IsNone(NumberGiven("longitude")))
               => lastResult.kind = "err" /\ issued = <<>>
        /\ issued # <<>> =>
               /\ inst.latitude = Unwrap(NumberGiven("latitude"))
               /\ inst.longitude = Unwrap(NumberGiven("longitude"))
               /\ QueryValue("lat") = Unwrap(NumberGiven("latitude"))
               /\ QueryValue("lon") = Unwrap(NumberGiven("longitude"))
               /\ QueryValue("units") = UnwrapOr(TextGiven("units"), "metric")
               /\ QueryValue("lang") = UnwrapOr(TextGiven("lang"), "en")
               /\ lastCtx.opts.object = Some("historical_weather") =>
                      /\ IsSome(TimestampGiven("observation_time"))
                      /\ inst.dt = Some(QueryValue("dt"))
                      /\ QueryValue("dt") * MICROS <= Unwrap(TimestampGiven("observation_time")) + MICROS - 1
                      /\ QueryValue("dt") * MICROS >= Unwrap(TimestampGiven("observation_time")) - MICROS + 1
               /\ lastCtx.opts.object = Some("daily_summary") =>
                      /\ QueryValue("date") = Unwrap(TextGiven("summary_date"))
                      /\ inst.timezone_offset = TextGiven("timezone_offset")
               /\ lastCtx.opts.object = Some("weather_overview") =>
                      inst.date = TextGiven("overview_date")

\* a scan whose list has a '<' predicate on latitude before the equality and a
\* second equality after it was sent with the value of the first equality
C21_Witness ==
    /\ BeganScanOnTable
    /\ issued # <<>>
    /\ lastCtx.quals[1].field = "latitude"
    /\ lastCtx.quals[1].operator = "<"
    /\ lastCtx.quals[3].field = "latitude"
    /\ lastCtx.quals[3].operator = "="
    /\ lastCtx.quals[3].value # lastCtx.quals[2].value
    /\ QueryValue("lat") = lastCtx.quals[2].value.v

\* ---------------------------------------------------------------------------
\* the predicates of historical_weather and daily_summary

LocationGiven == IsSome(NumberGiven("latitude")) /\ IsSome(NumberGiven("longitude"))

\* dt is ts / 1_000_000 with the fraction of a second dropped
IsSecondsOf(dt, ts) ==
    IF ts >= 0
    THEN dt * MICROS <= ts /\ ts < dt * MICROS + MICROS
    ELSE dt * MICROS >= ts /\ ts > dt * MICROS - MICROS

C22_Historical ==
    IF IsNone(TimestampGiven("observation_time"))
    THEN /\ lastResult.kind = "err"
         /\ lastResult.msg[1]
                = "WHERE clause must include 'observation_time' for historical_weather"
         /\ issued = <<>>
    ELSE /\ Len(issued) = 1
         /\ IsSecondsOf(QueryValue("dt"), Unwrap(TimestampGiven("observation_time")))
         /\ inst.dt = Some(QueryValue("dt"))
         /\ inst.date = None
         /\ inst.timezone_offset = None

C22_DailySummary ==
    IF IsNone(TextGiven("summary_date"))
    THEN /\ lastResult.kind = "err"
         /\ lastResult.msg[1]
                = "WHERE clause must include 'summary_date' (YYYY-MM-DD format) for daily_summary"
         /\ issued = <<>>
    ELSE /\ Len(issued) = 1
         /\ QueryValue("date") = Unwrap(TextGiven("summary_date"))
         /\ inst.date = TextGiven("summary_date")
         /\ inst.timezone_offset = TextGiven("timezone_offset")
         /\ inst.dt = None

\* C22: on a fresh engine, observation_time is read for historical_weather
\* only and summary_date and timezone_offset for daily_summary only; a
\* historical scan without a timestamp equality on observation_time and a
\* daily_summary scan without a text equality on summary_date fail before
\* any request; an accepted historical scan sends dt = timestamp / 1_000_000.
C22_OwnPredicatesOnly ==
    (BeganScanOnTable /\ LocationGiven) =>
        CASE lastCtx.opts.object = Some("historical_weather") -> C22_Historical
          [] lastCtx.opts.object = Some("daily_summary") -> C22_DailySummary
          [] lastCtx.opts.object = Some("weather_overview") ->
                 /\ Len(issued) = 1
                 /\ inst.dt = None
                 /\ inst.timezone_offset = None
                 /\ inst.date = TextGiven("overview_date")
          [] OTHER ->
                 /\ Len(issued) = 1
                 /\ inst.dt = None
                 /\ inst.date = None
                 /\ inst.timezone_offset = None

\* a historical scan for 1.5 s before the epoch was sent with dt = -1
C22_Witness ==
    /\ BeganScanOnTable
    /\ lastCtx.opts.object = Some("historical_weather")
    /\ TimestampGiven("observation_time") = Some(-1500000)
    /\ Len(issued) = 1
    /\ QueryValue("dt") = -1

\* ---------------------------------------------------------------------------
\* defaults of units and lang

C23_BeginStep ==
    (lastOp' = "begin_scan" /\ issued' # <<>>) =>
        LET query == issued'[1].query
            Sent(key) == {query[k].v : k \in {j \in 1..Len(query) : query[j].k = key}}
            NoEq(field) ==
                \A k \in 1..Len(lastCtx'.quals) :
                    ~(lastCtx'.quals[k].field = field /\ lastCtx'.quals[k].operator = "=")
        IN  /\ NoEq("units") => Sent("units") = {"metric"} /\ inst'.units = "metric"
            /\ NoEq("lang") => Sent("lang") = {"en"} /\ inst'.lang = "en"

\* C23: a begin_scan without an equality predicate on units (on lang) sends
\* units=metric (lang=en), whatever units and lang the engine holds from the
\* scans before it.
C23_DefaultsIgnoreEarlierScans == [][C23_BeginStep]_vars

\* a scan without units and lang predicates was sent with the defaults on an
\* engine that still holds the dt and tz of earlier scans
C23_Witness ==
    /\ lastOp = "begin_scan"
    /\ issued # <<>>
    /\ FirstEq("units") = 0
    /\ FirstEq("lang") = 0
    /\ lastCtx.opts.object = Some("current_weather")
    /\ IsSome(inst.dt)
    /\ IsSome(inst.timezone_offset)
    /\ QueryValue("units") = "metric"
    /\ QueryValue("lang") = "en"

\* ---------------------------------------------------------------------------
\* table names

EightNames ==
    {"current_weather", "minutely_forecast", "hourly_forecast", "daily_forecast",
     "weather_alerts", "historical_weather", "daily_summary", "weather_overview"}

VariantOf(name) ==
    CASE name = "current_weather" -> "CurrentWeather"
      [] name = "minutely_forecast" -> "MinutelyForecast"
      [] name = "hourly_forecast" -> "HourlyForecast"
      [] name = "daily_forecast" -> "DailyForecast"
      [] name = "weather_alerts" -> "WeatherAlerts"
      [] name = "historical_weather" -> "HistoricalWeather"
      [] name = "daily_summary" -> "DailySummary"
      [] name = "weather_overview" -> "WeatherOverview"

C24_BeginStep ==
    (lastOp' = "begin_scan" /\ IsSome(lastCtx'.opts.object)) =>
        LET name == Unwrap(lastCtx'.opts.object)
        IN  IF name \in EightNames
            THEN /\ inst'.endpoint_type = Some(VariantOf(name))
                 /\ lastResult'.kind = "err" =>
                        lastResult'.msg[1] # "unsupported endpoint object"
            ELSE /\ lastResult'.kind = "err"
                 /\ lastResult'.msg[1] = "unsupported endpoint object"
                 /\ lastResult'.msg[2] = name
                 /\ EightNames \subseteq
                        {lastResult'.msg[k] : k \in 1..Len(lastResult'.msg)}
                 /\ issued' = <<>>
                 /\ inst' = inst

\* C24: begin_scan resolves exactly the eight table names, by exact match; any
\* other name fails with a message that names the eight, before any
\* parameter is stored and before any request.
C24_ExactlyEightNames == [][C24_BeginStep]_vars

\* a begin_scan on CURRENT_WEATHER with a usable location was rejected
C24_Witness ==
    /\ lastOp = "begin_scan"
    /\ lastCtx.opts.object = Some("CURRENT_WEATHER")
    /\ LocationGiven
    /\ lastResult.kind = "err"
    /\ lastResult.msg[1] = "unsupported endpoint object"
    /\ inst.endpoint_type = None
    /\ issued = <<>>

----------------------------------------------------------------------------
(* C25: transport failures *)

\* replies of the server: none, error statuses with and without a document the
\* decoders would accept, and successes
TransportReplies ==
    { [sent |-> FALSE],
      Replied(401, TRUE, JObj([cod |-> JInt(401)])),
      Replied(404, FALSE, JStr("not found")),
      Replied(500, TRUE, OneCallDoc(1)),
      Replied(503, TRUE, OverviewDoc),
      Replied(200, TRUE, OneCallDoc(1)),
      Replied(200, TRUE, OverviewDoc) }

TransportTables == {"current_weather", "weather_overview"}

TransportNext ==
    \/ init(ServerOptions)
    \/ begin_scan(Contexts(TableOptions(TransportTables), {GoodLocation}),
                  TransportReplies)
    \/ iter_scan({<<"latitude", "longitude">>})
    \/ end_scan
    \/ re_scan
    \/ begin_modify
    \/ insert
    \/ update
    \/ delete
    \/ end_modify

TransportSpec == Init /\ [][TransportNext]_vars

\* the request met a network error or was answered with a status outside 2xx
TransportFailed(reply) ==
    IsSome(reply) /\
        (~Unwrap(reply).sent
         \/ Unwrap(reply).status_code < 200 \/ Unwrap(reply).status_code > 299)

C25_Step ==
    /\ (lastOp' = "begin_scan" /\ TransportFailed(lastCtx'.reply)) =>
           /\ lastResult'.kind = "err"
           /\ lastResult'.msg[1] \in {"http error", "http status"}
           /\ Len(issued') = 1
           /\ inst'.data = inst.data
           /\ inst'.current_row = inst.current_row
    /\ lastOp' # "begin_scan" => issued' = <<>>

----------------------------------------------------------------------------
(* C26: a requested column the endpoint does not have *)

\* the endpoint the loaded rowset belongs to, as the error messages name it
EndpointOf(variant) == CHOOSE n \in EightNames : VariantOf(n) = variant

Unknown(data, columns) ==
    {i \in 1..Len(columns) : columns[i] \notin TableColumns(data.variant)}

C26_Step ==
    (/\ lastOp' = "iter_scan"
     /\ inst.current_row < row_count(inst.data)
     /\ Unknown(inst.data, lastCtx'.columns) # {}) =>
        LET columns == lastCtx'.columns
            first == Min(Unknown(inst.data, columns))
        IN  /\ lastResult'.kind = "err"
            /\ lastResult'.msg = <<"unknown column", columns[first],
                                   "for endpoint", EndpointOf(inst.data.variant)>>
            /\ inst' = inst
            /\ emitted' = emitted
            /\ inst'.current_row < row_count(inst'.data)

\* C26: an iter_scan on a scan with rows left that asks for a column the loaded
\* endpoint does not have fails with the unknown-column error naming that column
\* and endpoint, and changes nothing: the cursor and the rowset stay, so the same
\* call fails again on the same row and the scan does not reach end-of-data.
C26_UnknownColumnFailsAndStays == [][C26_Step]_vars

\* the second row of an hourly forecast refused after the first was emitted
C26_Witness ==
    /\ lastOp = "iter_scan"
    /\ lastResult.kind = "err"
    /\ lastResult.msg = <<"unknown column", "no_such_column",
                          "for endpoint", "hourly_forecast">>
    /\ inst.data.variant = "HourlyForecast"
    /\ inst.current_row = 1
    /\ emitted = 1
    /\ row_count(inst.data) >= 2

----------------------------------------------------------------------------
(* C27: the cursor stays within the rowset *)

\* C27: in every reachable state the cursor is between 0 and the number of rows
\* loaded, and no call has returned the error "row index out of bounds".
C27_CursorWithinRowset ==
    /\ inst.current_row >= 0
    /\ inst.current_row <= row_count(inst.data)
    /\ lastResult.kind \in {"err", "panic"} =>
           lastResult.msg[1] # "row index out of bounds"

\* a cursor at the end of a rowset of several rows, kept there by a begin_scan
\* that failed
C27_Witness ==
    /\ lastOp = "begin_scan"
    /\ lastResult.kind = "err"
    /\ row_count(inst.data) >= 2
    /\ inst.current_row = row_count(inst.data)

----------------------------------------------------------------------------
(* C28: a failing begin_scan leaves the rows and the cursor *)

TransportErrors == {"http error", "http status", "JSON parse error"}

\* the begin_scan failed in one of the decoders
FailedInDecoder ==
    /\ lastOp = "begin_scan"
    /\ lastResult.kind = "err"
    /\ lastResult.msg[1] \notin PreRequestErrors \cup TransportErrors
    /\ Len(issued) = 1

C28_BeginStep ==
    (lastOp' = "begin_scan" /\ lastResult'.kind = "err") =>
        /\ inst'.data = inst.data
        /\ inst'.current_row = inst.current_row

C28_IterStep ==
    (/\ lastOp = "begin_scan" /\ lastResult.kind = "err"
     /\ lastOp' = "iter_scan"
     /\ inst.current_row < row_count(inst.data)
     /\ ColumnsKnown(inst.data, lastCtx'.columns)) =>
        /\ lastResult'.kind = "row"
        /\ lastResult'.row =
               [i \in 1..Len(lastCtx'.columns) |->
                   get_cell_value(inst, lastCtx'.columns[i]).v]
        /\ inst'.data = inst.data
        /\ inst'.current_row = inst.current_row + 1

\* C28: a begin_scan that fails, at whatever step, leaves the rowset and the
\* cursor exactly as they were, and an iter_scan that follows it on an earlier
\* scan with rows left emits the next row of that earlier scan.
C28_FailedBeginScanKeepsRows == [][C28_BeginStep /\ C28_IterStep]_vars

\* a begin_scan that failed in its decoder in the middle of an earlier scan
C28_Witness ==
    /\ FailedInDecoder
    /\ row_count(inst.data) >= 2
    /\ inst.current_row = 1
    /\ emitted = 1

----------------------------------------------------------------------------
(* C29: the rowset and the selected endpoint *)

\* C29: whenever a rowset is loaded, its variant is the one of the selected
\* endpoint_type.
C29_RowsetMatchesEndpoint ==
    Loaded => inst.endpoint_type = Some(inst.data.variant)

----------------------------------------------------------------------------
(* C30: a scan's request does not depend on earlier scans *)

\* the requests a begin_scan with this context issues on an instance just
\* initialised with the server options
FreshRequests(server_opts, ctx) ==
    LET p == begin_scan_prepare(guest_init(server_opts).self, ctx)
        req == create_request(p.self)
    IN  IF p.res.ok /\ req.ok THEN <<req.v>> ELSE <<>>

Supplied(key) ==
    CASE key = "dt" -> IsSome(TimestampGiven("observation_time"))
      [] key = "date" -> IsSome(TextGiven("summary_date"))
                         \/ IsSome(TextGiven("overview_date"))
      [] key = "tz" -> IsSome(TextGiven("timezone_offset"))

\* C30: the request a begin_scan issues is the one an instance fresh from init
\* with the same server options issues for the same table name and predicates,
\* whatever scans came before, ended or not; dt, date and tz are in the request
\* only when this call's predicates supply them.
C30_RequestIndependentOfEarlierScans ==
    lastOp = "begin_scan" =>
        /\ \A o \in ServerOptions : issued = FreshRequests(o, lastCtx)
        /\ issued # <<>> =>
               \A key \in {"dt", "date", "tz"} \cap QueryKeys : Supplied(key)

\* a current_weather request while dt, date and tz of earlier scans are stored
C30_Witness ==
    /\ lastOp = "begin_scan"
    /\ lastCtx.opts.object = Some("current_weather")
    /\ issued # <<>>
    /\ IsSome(inst.dt)
    /\ IsSome(inst.date)
    /\ IsSome(inst.timezone_offset)
    /\ QueryKeys \cap {"dt", "date", "tz"} = {}

====
